---- MODULE Spec2Model ----
(***************************************************************************)
(* Model of the llmseo audit pipeline (src/src/llmseo/audit.py and         *)
(* src/src/llmseo/utils.py): URL normalisation, the robots.txt / llm.txt   *)
(* probes, the bounded breadth-first crawl, scoring and recommendations.   *)
(*                                                                         *)
(* Strings are TLA+ strings, i.e. sequences of characters: Len, \o and     *)
(* SubSeq are the only sequence operators applied to them, and a           *)
(* character is the one-character string SubSeq(s, i, i).                  *)
(* Scores are kept in thousandths of a point (15.0 points = 15000).        *)
(***************************************************************************)
EXTENDS Integers, Sequences, FiniteSets, TLC

(***************************************************************************)
(* String helpers (Python str methods used by the code).                   *)
(***************************************************************************)
Ch(s, i) == SubSeq(s, i, i)

StartsWith(s, p) == Len(p) <= Len(s) /\ SubSeq(s, 1, Len(p)) = p

EndsWith(s, p) == Len(p) <= Len(s) /\ SubSeq(s, Len(s) - Len(p) + 1, Len(s)) = p

\* s[i:] with a 0-based Python index i
From(s, i) == SubSeq(s, i + 1, Len(s))

RECURSIVE Scan(_, _, _)
\* the first 1-based position i >= k of s whose character is in C;
\* Len(s) + 1 when there is none
Scan(s, k, C) ==
    IF k > Len(s) THEN Len(s) + 1
    ELSE IF Ch(s, k) \in C THEN k
    ELSE Scan(s, k + 1, C)

RECURSIVE Skip(_, _, _)
\* the first 1-based position i >= k of s whose character is not in C;
\* Len(s) + 1 when there is none
Skip(s, k, C) ==
    IF k > Len(s) THEN Len(s) + 1
    ELSE IF Ch(s, k) \notin C THEN k
    ELSE Skip(s, k + 1, C)

RECURSIVE SkipBack(_, _, _)
\* the last 1-based position i <= k of s whose character is not in C; 0 when
\* there is none
SkipBack(s, k, C) ==
    IF k < 1 THEN 0
    ELSE IF Ch(s, k) \notin C THEN k
    ELSE SkipBack(s, k - 1, C)

\* str.split(c, 1)[0]
Before(s, c) == SubSeq(s, 1, Scan(s, 1, {c}) - 1)

\* str.split(c, 1)[1] when c occurs, "" otherwise
After(s, c) == SubSeq(s, Scan(s, 1, {c}) + 1, Len(s))

Whitespace == {" ", "\t", "\n", "\r", "\f"}

\* str.lstrip()
LStrip(s) == SubSeq(s, Skip(s, 1, Whitespace), Len(s))

\* str.strip()
Strip(s) == SubSeq(s, Skip(s, 1, Whitespace), SkipBack(s, Len(s), Whitespace))

\* string.ascii_uppercase + string.ascii_lowercase
Letters == "ABCDEFGHIJKLMNOPQRSTUVWXYZabcdefghijklmnopqrstuvwxyz"

Uppers == {Ch(Letters, i) : i \in 1..26}

Alphas == {Ch(Letters, i) : i \in 1..52}

\* the characters of a URL scheme: letters, digits, "+", "-", "."
SchemeChars == Alphas \cup {Ch("0123456789+-.", i) : i \in 1..13}

\* str.lower() of one character
LowerCh(c) == IF c \in Uppers THEN Ch(Letters, Scan(Letters, 1, {c}) + 26) ELSE c

RECURSIVE Lower(_)
\* str.lower()
Lower(s) == IF s = "" THEN "" ELSE LowerCh(Ch(s, 1)) \o Lower(From(s, 1))

RECURSIVE RemoveChars(_, _)
\* str.replace(c, "") for every c in C
RemoveChars(s, C) ==
    IF s = "" THEN ""
    ELSE (IF Ch(s, 1) \in C THEN "" ELSE Ch(s, 1)) \o RemoveChars(From(s, 1), C)

\* "sub in s"
Contains(s, sub) ==
    \E i \in 1..(Len(s) - Len(sub) + 1) : SubSeq(s, i, i + Len(sub) - 1) = sub

RECURSIVE Split(_, _)
\* str.split(c)
Split(s, c) ==
    IF Scan(s, 1, {c}) > Len(s) THEN <<s>>
    ELSE <<Before(s, c)>> \o Split(After(s, c), c)

RECURSIVE Join(_, _)
\* c.join(parts)
Join(parts, c) ==
    IF parts = <<>> THEN ""
    ELSE IF Len(parts) = 1 THEN parts[1]
    ELSE parts[1] \o c \o Join(Tail(parts), c)

WordChars == Alphas \cup {"'"}

RECURSIVE FindWords(_, _)
\* re.findall(r"[A-Za-z']+", s) from the 1-based position k on: the match
\* that starts at the first word character, and the matches after it
FindWords(s, k) ==
    IF Scan(s, k, WordChars) > Len(s) THEN <<>>
    ELSE <<SubSeq(s, Scan(s, k, WordChars),
                  Skip(s, Scan(s, k, WordChars), WordChars) - 1)>>
         \o FindWords(s, Skip(s, Scan(s, k, WordChars), WordChars))

(***************************************************************************)
(* urllib.parse as called by utils.py: urlparse, urlunparse, urljoin.      *)
(* Inputs never hold ';' '[' ']' or non-ASCII characters, so the params    *)
(* split and the IPv6 / NFKC checks of the library are not exercised.      *)
(***************************************************************************)
\* the url starts with "<scheme>:"
HasScheme(u) ==
    /\ Scan(u, 1, {":"}) > 1
    /\ Scan(u, 1, {":"}) <= Len(u)
    /\ Ch(u, 1) \in Alphas
    /\ Skip(u, 1, SchemeChars) = Scan(u, 1, {":"})

\* the ParseResult: the path, query and fragment of what follows the netloc
SplitPath(scheme, netloc, rest) ==
    [scheme |-> scheme, netloc |-> netloc,
     path |-> Before(Before(rest, "#"), "?"),
     query |-> After(Before(rest, "#"), "?"),
     fragment |-> After(rest, "#")]

\* the netloc of what follows the scheme: up to the first of / ? #
SplitNetloc(scheme, rest) ==
    IF StartsWith(rest, "//")
    THEN SplitPath(scheme, SubSeq(rest, 3, Scan(rest, 3, {"/", "?", "#"}) - 1),
                   SubSeq(rest, Scan(rest, 3, {"/", "?", "#"}), Len(rest)))
    ELSE SplitPath(scheme, "", rest)

\* the scheme of a url already stripped, lower-cased, and what follows it
SplitScheme(u, default) ==
    IF HasScheme(u) THEN SplitNetloc(Lower(Before(u, ":")), After(u, ":"))
    ELSE SplitNetloc(default, u)

\* urlparse(url, scheme=default): the fields normalize_url and the crawl read
urlparse(url, default) ==
    SplitScheme(RemoveChars(LStrip(url), {"\t", "\r", "\n"}), default)

\* urlunparse((scheme, netloc, path, "", query, fragment)): scheme ":",
\* "//" netloc, path, "?" query, "#" fragment, each part only when non-empty
urlunparse(scheme, netloc, path, query, fragment) ==
    (IF scheme # "" THEN scheme \o ":" ELSE "")
    \o (IF netloc # "" \/ (scheme \in {"http", "https", "ftp"}
                           /\ ~StartsWith(path, "//"))
        THEN "//" \o netloc
             \o (IF path # "" /\ ~StartsWith(path, "/") THEN "/" ELSE "")
             \o path
        ELSE path)
    \o (IF query # "" THEN "?" \o query ELSE "")
    \o (IF fragment # "" THEN "#" \o fragment ELSE "")

(***************************************************************************)
(* utils.normalize_url.  The result is [ok, url]: ok = FALSE models the    *)
(* ValueError("Cannot determine host for URL").                            *)
(***************************************************************************)
\* NormalizeHost without the "if not netloc: raise" test: a URL without a
\* host is built and returned
NormalizeHostNoRaise(scheme, netloc, path, query) ==
    IF netloc = "" /\ path # "" /\ ~StartsWith(path, "/")
    THEN [ok |-> TRUE, url |-> urlunparse(scheme, path, "/", query, "")]
    ELSE [ok |-> TRUE,
          url |-> urlunparse(scheme, netloc,
                             IF path = "" THEN "/"
                             ELSE IF ~StartsWith(path, "/") THEN "/" \o path
                             ELSE path,
                             query, "")]

\* lines 27-39: a bare host left in path becomes the netloc; no netloc raises;
\* the path gets its leading "/"
NormalizeHost(scheme, netloc, path, query) ==
    IF netloc = "" /\ path # "" /\ ~StartsWith(path, "/")
    THEN [ok |-> TRUE, url |-> urlunparse(scheme, path, "/", query, "")]
    ELSE IF netloc = ""
    THEN [ok |-> FALSE, url |-> ""]
    ELSE [ok |-> TRUE,
          url |-> urlunparse(scheme, netloc,
                             IF path = "" THEN "/"
                             ELSE IF ~StartsWith(path, "/") THEN "/" \o path
                             ELSE path,
                             query, "")]

\* lines 19-23: with no netloc, what urlparse makes of "//" + cleaned wins
NormalizeReparsed(parsed, scheme, reparsed) ==
    IF parsed.netloc = "" /\ reparsed.netloc # ""
    THEN NormalizeHost(scheme, reparsed.netloc, reparsed.path,
                       IF reparsed.query # "" THEN reparsed.query ELSE parsed.query)
    ELSE NormalizeHost(scheme, parsed.netloc, parsed.path, parsed.query)

\* NormalizeScheme without the reset of a scheme that is not http / https when
\* there is no netloc
NormalizeSchemeKept(netloc, scheme) == IF scheme = "" THEN "https" ELSE scheme

\* lines 16-18 and 24-25: the scheme, "https" by default
NormalizeScheme(netloc, scheme) ==
    IF netloc = ""
    THEN (IF scheme \notin {"http", "https"} THEN "https" ELSE scheme)
    ELSE (IF scheme = "" THEN "https" ELSE scheme)

\* lines 11-19: parsed = urlparse(cleaned), the scheme, and the reparse
NormalizeParsed(cleaned, parsed) ==
    NormalizeReparsed(parsed, NormalizeScheme(parsed.netloc, Lower(parsed.scheme)),
                      urlparse("//" \o cleaned,
                               NormalizeScheme(parsed.netloc, Lower(parsed.scheme))))

\* utils.normalize_url
normalize_url(url) == NormalizeParsed(Strip(url), urlparse(Strip(url), ""))

(***************************************************************************)
(* urllib.parse.urljoin, as called by utils.to_absolute.                   *)
(***************************************************************************)
RECURSIVE RemoveDots(_, _)
\* the resolved_path loop of urljoin: '..' pops, '.' is skipped
RemoveDots(segs, acc) ==
    IF segs = <<>> THEN acc
    ELSE IF Head(segs) = ".."
         THEN RemoveDots(Tail(segs),
                         IF acc = <<>> THEN acc ELSE SubSeq(acc, 1, Len(acc) - 1))
    ELSE IF Head(segs) = "."
         THEN RemoveDots(Tail(segs), acc)
    ELSE RemoveDots(Tail(segs), Append(acc, Head(segs)))

\* base_parts: the segments of the base path without its last one
BaseParts(parts) ==
    IF parts[Len(parts)] # "" THEN SubSeq(parts, 1, Len(parts) - 1) ELSE parts

\* segments[1:-1] = filter(None, segments[1:-1])
FilterInner(segs) ==
    IF Len(segs) <= 2 THEN segs
    ELSE <<segs[1]>> \o SelectSeq(SubSeq(segs, 2, Len(segs) - 1), LAMBDA x : x # "")
         \o <<segs[Len(segs)]>>

Segments(bpath, path) ==
    IF StartsWith(path, "/") THEN Split(path, "/")
    ELSE FilterInner(BaseParts(Split(bpath, "/")) \o Split(path, "/"))

OrSlash(p) == IF p = "" THEN "/" ELSE p

\* '/'.join(resolved_path) or '/'
ResolvedPath(segs) ==
    OrSlash(Join(IF segs[Len(segs)] \in {".", ".."}
                 THEN Append(RemoveDots(segs, <<>>), "")
                 ELSE RemoveDots(segs, <<>>), "/"))

\* urljoin once base and url are parsed (uses_relative holds the schemes)
JoinParsed(url, b, u) ==
    IF u.scheme # b.scheme \/ u.scheme \notin {"", "http", "https", "ftp", "file"}
    THEN url
    ELSE IF u.netloc # ""
         THEN urlunparse(u.scheme, u.netloc, u.path, u.query, u.fragment)
    ELSE IF u.path = ""
         THEN urlunparse(u.scheme, b.netloc, b.path,
                         IF u.query = "" THEN b.query ELSE u.query, u.fragment)
    ELSE urlunparse(u.scheme, b.netloc, ResolvedPath(Segments(b.path, u.path)),
                    u.query, u.fragment)

urljoin(base, url) ==
    IF base = "" THEN url
    ELSE IF url = "" THEN base
    ELSE JoinParsed(url, urlparse(base, ""), urlparse(url, urlparse(base, "").scheme))

\* utils.to_absolute
to_absolute(base, maybe_rel) == urljoin(base, maybe_rel)

\* is_same_origin that compares the netloc alone
is_same_originAnyScheme(base, other) ==
    urlparse(base, "").netloc = urlparse(other, "").netloc

\* utils.is_same_origin
is_same_origin(base, other) ==
    <<urlparse(base, "").scheme, urlparse(base, "").netloc>>
        = <<urlparse(other, "").scheme, urlparse(other, "").netloc>>

NON_HTML_EXTENSIONS ==
    {".jpg", ".jpeg", ".png", ".gif", ".svg", ".webp", ".ico", ".css", ".js",
     ".pdf", ".zip", ".mp4", ".mp3", ".mov", ".avi"}

\* audit._should_follow
_should_follow(link) ==
    /\ urlparse(link, "").scheme \in {"http", "https"}
    /\ ~\E ext \in NON_HTML_EXTENSIONS : EndsWith(Lower(urlparse(link, "").path), ext)

(***************************************************************************)
(* Optional values and dicts.  None is [some |-> FALSE]; a dict is a       *)
(* function whose domain is its key set.                                   *)
(***************************************************************************)
None == [some |-> FALSE, v |-> ""]

Some(x) == [some |-> TRUE, v |-> x]

\* Python truthiness of an Optional[str]
Truthy(o) == o.some /\ o.v # ""

\* d.get(k)
DictGet(d, k) == IF k \in DOMAIN d THEN Some(d[k]) ELSE None

\* "a or b" on two Optional[str]
Or(a, b) == IF Truthy(a) THEN a ELSE b

(***************************************************************************)
(* The regular expressions of the code see an HTML body as a sequence, in  *)
(* document order, of the pieces they match: anchors, JSON-LD script       *)
(* blocks, the title / meta / link tags (head = TRUE when inside           *)
(* <head>...</head>), the <html lang=> attribute, headings, semantic tags, *)
(* and the visible text outside title and headings: the word count of the  *)
(* whole visible text, its Flesch reading ease (an integer here) and its   *)
(* lower-cased words in order, the article "the" left out.  A JSON-LD body *)
(* is given by what json.loads makes of it.                                *)
(***************************************************************************)
NoType == [tk |-> "absent", s |-> "", l |-> <<>>]

StrType(t) == [tk |-> "str", s |-> t, l |-> <<>>]

ListType(ts) == [tk |-> "list", s |-> "", l |-> ts]

\* what is not a JSON object or array: kind "none" when there is no body,
\* "invalid" for a body json.loads rejects, "scalar" for a JSON number, string,
\* boolean or null
JOther(kind) == [kind |-> kind, type |-> NoType, items |-> <<>>]

\* a JSON object; t is its "@type" member
JObject(t) == [kind |-> "object", type |-> t, items |-> <<>>]

\* a JSON array of the given items
JList(its) == [kind |-> "list", type |-> NoType, items |-> its]

El(tag, name, prop, val, head) ==
    [tag |-> tag, name |-> name, prop |-> prop, val |-> val, head |-> head,
     json |-> JOther("none"), wc |-> 0, ease |-> 0, words |-> <<>>]

Anchor(href) == El("a", "", "", href, FALSE)

Title(t) == El("title", "", "", t, TRUE)

MetaName(name, content) == El("meta", name, "", content, TRUE)

MetaProp(prop, content) == El("meta", "", prop, content, TRUE)

LinkRel(rel, href) == El("link", rel, "", href, TRUE)

HtmlLang == El("html_lang", "", "", "", FALSE)

Heading(h, text) == El(h, "", "", text, FALSE)

Semantic(tag) == El(tag, "", "", "", FALSE)

LdJson(j) == [El("ldjson", "", "", "", FALSE) EXCEPT !.json = j]

Text(wc, ease, words) ==
    [El("text", "", "", "", FALSE) EXCEPT !.wc = wc, !.ease = ease, !.words = words]

\* re.finditer / re.findall of one tag: its matches in document order
Tagged(html, tag) == SelectSeq(html, LAMBDA e : e.tag = tag)

\* the three re.findall calls that build the headings dict: the captured
\* group of each match
Headings(html) ==
    [h \in {"h1", "h2", "h3"} |->
        [i \in 1..Len(Tagged(html, h)) |-> Tagged(html, h)[i].val]]

\* audit.get_head: the part of the document inside <head>
get_head(html) == SelectSeq(html, LAMBDA e : e.head)

RECURSIVE Dedupe(_, _)
\* list(dict.fromkeys(xs)): first occurrences, in order
Dedupe(xs, acc) ==
    IF xs = <<>> THEN acc
    ELSE Dedupe(Tail(xs),
                IF \E i \in 1..Len(acc) : acc[i] = Head(xs) THEN acc
                ELSE Append(acc, Head(xs)))

\* the keys one <meta> tag sets
MetaKeys(e) ==
    (IF e.name # "" THEN {"name:" \o Lower(e.name)} ELSE {})
    \cup (IF e.prop # "" THEN {"prop:" \o Lower(e.prop)} ELSE {})

\* the last <meta> tag that sets key k
LastWith(ms, k) ==
    CHOOSE i \in 1..Len(ms) :
        /\ k \in MetaKeys(ms[i])
        /\ \A j \in (i + 1)..Len(ms) : k \notin MetaKeys(ms[j])

\* audit.extract_meta: key -> content, a later tag overriding an earlier one
extract_meta(head_html) ==
    [k \in UNION {MetaKeys(Tagged(head_html, "meta")[i]) :
                     i \in 1..Len(Tagged(head_html, "meta"))}
        |-> Tagged(head_html, "meta")[LastWith(Tagged(head_html, "meta"), k)].val]

\* audit.extract_title: the first <title>, stripped
extract_title(head_html) ==
    IF Tagged(head_html, "title") = <<>> THEN None
    ELSE Some(Strip(Tagged(head_html, "title")[1].val))

\* the <link> tags whose rel holds "canonical" and that have an href
CanonicalLinks(head_html) ==
    SelectSeq(Tagged(head_html, "link"),
              LAMBDA e : Contains(Lower(e.name), "canonical") /\ e.val # "")

\* audit.extract_canonical
extract_canonical(head_html, base_url) ==
    IF CanonicalLinks(head_html) = <<>> THEN None
    ELSE Some(to_absolute(base_url, CanonicalLinks(head_html)[1].val))

\* og = {k[5:]: v for k, v in metas.items() if k.startswith("prop:og:")}
OgTags(metas) ==
    [k \in {From(m, 5) : m \in {x \in DOMAIN metas : StartsWith(x, "prop:og:")}}
        |-> metas["prop:" \o k]]

\* the "@type" strings one JSON-LD item contributes
TypesOf(it) ==
    IF it.type.tk = "list" THEN it.type.l
    ELSE IF it.type.tk = "str" THEN <<it.type.s>>
    ELSE <<>>

RECURSIVE FlattenTypes(_)
FlattenTypes(its) ==
    IF its = <<>> THEN <<>> ELSE TypesOf(Head(its)) \o FlattenTypes(Tail(its))

RECURSIVE FlattenItems(_)
\* items = data if isinstance(data, list) else [data], of every block whose
\* body json.loads accepts
FlattenItems(blocks) ==
    IF blocks = <<>> THEN <<>>
    ELSE (IF Head(blocks).json.kind = "invalid" THEN <<>>
          ELSE IF Head(blocks).json.kind = "list" THEN Head(blocks).json.items
          ELSE <<Head(blocks).json>>)
         \o FlattenItems(Tail(blocks))

\* the loop over the items of all blocks.  ok = FALSE is the AttributeError
\* that it.get("@type") raises on an item that is not a JSON object.
LdResult(items) ==
    IF \E i \in 1..Len(items) : items[i].kind # "object"
    THEN [ok |-> FALSE, types |-> <<>>, has_faq |-> FALSE]
    ELSE [ok |-> TRUE,
          types |-> Dedupe(FlattenTypes(items), <<>>),
          has_faq |-> \E i \in 1..Len(FlattenTypes(items)) :
                         Lower(FlattenTypes(items)[i]) = "faqpage"]

\* audit.extract_json_ld_types
extract_json_ld_types(html) == LdResult(FlattenItems(Tagged(html, "ldjson")))

\* audit.detect_semantic_tags
detect_semantic_tags(html) ==
    SelectSeq(<<"article", "section", "nav", "aside", "main", "header", "footer">>,
              LAMBDA t : Tagged(html, t) # <<>>)

\* utils.extract_visible_text + utils.word_stats: the word count of the text
word_stats(html) ==
    [word_count |-> IF Tagged(html, "text") = <<>> THEN 0
                    ELSE Tagged(html, "text")[1].wc]

\* utils.flesch_reading_ease of the text: 0.0 when there are no words
flesch_reading_ease(html) ==
    IF word_stats(html).word_count = 0 THEN 0 ELSE Tagged(html, "text")[1].ease

MAX_LINKS_PER_PAGE == 50

\* if not absolute: continue; absolute = absolute.split("#", 1)[0];
\* if absolute in seen: continue; links.append(absolute)
AddAbsolute(links, absolute) ==
    IF absolute = "" \/ \E i \in 1..Len(links) : links[i] = Before(absolute, "#")
    THEN links
    ELSE Append(links, Before(absolute, "#"))

\* one anchor of the loop of extract_links
AddLink(links, href, base_url) ==
    IF \/ href = ""
       \/ StartsWith(href, "#")
       \/ StartsWith(Lower(href), "javascript:")
       \/ StartsWith(Lower(href), "mailto:")
    THEN links
    ELSE AddAbsolute(links, to_absolute(base_url, href))

RECURSIVE LinkLoop(_, _, _, _)
LinkLoop(base_url, as, links, limit) ==
    IF as = <<>> \/ Len(links) >= limit THEN links
    ELSE LinkLoop(base_url, Tail(as), AddLink(links, Strip(Head(as).val), base_url),
                  limit)

\* utils.extract_links
extract_links(base_url, html, limit) ==
    LinkLoop(base_url, Tagged(html, "a"), <<>>, limit)

(***************************************************************************)
(* robots.txt                                                              *)
(***************************************************************************)
\* line.split(":", 1)[1].strip() of the lines whose lowercased text starts
\* with key
Directive(lines, key) ==
    [i \in 1..Len(SelectSeq(lines, LAMBDA l : StartsWith(Lower(l), key))) |->
        Strip(After(SelectSeq(lines, LAMBDA l : StartsWith(Lower(l), key))[i], ":"))]

\* the stripped lines that are neither empty nor comments
RobotsLines(raw) ==
    SelectSeq([i \in 1..Len(raw) |-> Strip(raw[i])],
              LAMBDA l : l # "" /\ ~StartsWith(l, "#"))

\* audit.parse_robots (the body holds "\n" line ends only)
parse_robots(robots_txt) ==
    [sitemaps |-> Directive(RobotsLines(Split(robots_txt, "\n")), "sitemap:"),
     disallow |-> Directive(RobotsLines(Split(robots_txt, "\n")), "disallow:"),
     allow    |-> Directive(RobotsLines(Split(robots_txt, "\n")), "allow:")]

\* check_blocked that does not skip the empty values
check_blockedEmptyToo(disallow_paths, url) ==
    \E i \in 1..Len(disallow_paths) :
        StartsWith(urlparse(url, "").path, Strip(disallow_paths[i]))

\* audit.check_blocked
check_blocked(disallow_paths, url) ==
    \E i \in 1..Len(disallow_paths) :
        /\ Strip(disallow_paths[i]) # ""
        /\ StartsWith(urlparse(url, "").path, Strip(disallow_paths[i]))

(***************************************************************************)
(* Scoring.  Sub-scores are in thousandths (1.0 = 1000), so a weighted     *)
(* contribution weight * sub-score is in thousandths of a point.  Stored   *)
(* (rounded) values are in tenths of a point.                              *)
(***************************************************************************)
CATEGORIES ==
    <<"indexability", "metadata", "structure", "structured_data",
      "content_depth", "policy", "sitemap">>

WEIGHTS ==
    [k \in {CATEGORIES[i] : i \in 1..Len(CATEGORIES)} |->
        CASE k = "indexability"    -> 15
          [] k = "metadata"        -> 20
          [] k = "structure"       -> 20
          [] k = "structured_data" -> 15
          [] k = "content_depth"   -> 15
          [] k = "policy"          -> 10
          [] k = "sitemap"         -> 5]

\* clamp that returns n whatever the limits
clampNot(n, lo, hi) == n

\* utils.clamp
clamp(n, lo, hi) == IF n < lo THEN lo ELSE IF n > hi THEN hi ELSE n

\* round(num / den, 1) for num in thousandths: the tenth nearest to the
\* quotient, a tie going to the even tenth.  The quotient is exact here; the
\* code rounds its binary floating-point value, which at an exact decimal
\* tie (x.x5) can fall one tenth to the other side.
Round1(num, den) ==
    IF 2 * (num % (100 * den)) > 100 * den THEN num \div (100 * den) + 1
    ELSE IF 2 * (num % (100 * den)) < 100 * den THEN num \div (100 * den)
    ELSE num \div (100 * den) + ((num \div (100 * den)) % 2)

\* meta_robots holds "noindex" or "nofollow" (case-insensitively)
NoIndex(page) ==
    /\ Truthy(page.meta_robots)
    /\ \/ Contains(Lower(page.meta_robots.v), "noindex")
       \/ Contains(Lower(page.meta_robots.v), "nofollow")

\* o and lo <= len(o.strip()) <= hi
LenIn(o, lo, hi) == Truthy(o) /\ lo <= Len(Strip(o.v)) /\ Len(Strip(o.v)) <= hi

\* IndexScore that looks at meta_robots before blocked_by_robots
IndexScoreMetaFirst(page) ==
    IF NoIndex(page) THEN 300 ELSE IF page.blocked_by_robots THEN 0 ELSE 1000

\* idx: 1.0, 0.0 when blocked_by_robots, times 0.3 for noindex / nofollow
IndexScore(page) ==
    IF page.blocked_by_robots THEN 0 ELSE IF NoIndex(page) THEN 300 ELSE 1000

MetaScore(page) ==
    (IF LenIn(page.title, 10, 65) THEN 350
     ELSE IF Truthy(page.title) THEN 200 ELSE 0)
    + (IF LenIn(page.description, 50, 160) THEN 250
       ELSE IF Truthy(page.description) THEN 150 ELSE 0)
    + (IF Truthy(DictGet(page.og_tags, "og:title"))
          \/ Truthy(DictGet(page.og_tags, "title")) THEN 150 ELSE 0)
    + (IF Truthy(DictGet(page.og_tags, "og:description"))
          \/ Truthy(DictGet(page.og_tags, "description")) THEN 100 ELSE 0)
    + (IF Truthy(page.canonical) THEN 100 ELSE 0)
    + (IF page.has_lang_attr THEN 50 ELSE 0)

StructureScore(page) ==
    (IF page.headings.h1 # <<>> THEN 450 ELSE 0)
    + (IF Len(page.headings.h2) >= 2 THEN 250 ELSE 0)
    + (IF Len(page.headings.h3) >= 2 THEN 150 ELSE 0)
    + (IF page.semantic_tags_present # <<>> THEN 150 ELSE 0)

StructuredDataScore(page) ==
    IF page.json_ld_types = <<>> THEN 0
    ELSE 400 + (IF \E i \in 1..Len(page.json_ld_types) :
                       page.json_ld_types[i]
                           \in {"FAQPage", "Article", "Product", "Organization",
                                "WebSite", "HowTo"}
                THEN 400 ELSE 0)

\* the word-count steps plus 0.3 * clamp(1 - abs(reading_ease - 60) / 60, 0, 1),
\* which is 5 * clamp(60 - abs(reading_ease - 60), 0, 60) thousandths
ContentScore(wc, reading_ease) ==
    clamp((IF wc >= 800 THEN 500 ELSE IF wc >= 400 THEN 350
           ELSE IF wc >= 200 THEN 200 ELSE 0)
          + 5 * clamp(60 - (IF reading_ease < 60 THEN 60 - reading_ease
                            ELSE reading_ease - 60), 0, 60),
          0, 1000)

\* audit._score_components
_score_components(page, site) ==
    [k \in DOMAIN WEIGHTS |->
        CASE k = "indexability"    -> WEIGHTS[k] * IndexScore(page)
          [] k = "metadata"        -> WEIGHTS[k] * clamp(MetaScore(page), 0, 1000)
          [] k = "structure"       -> WEIGHTS[k] * clamp(StructureScore(page), 0, 1000)
          [] k = "structured_data" -> WEIGHTS[k] * clamp(StructuredDataScore(page), 0, 1000)
          [] k = "content_depth"   -> WEIGHTS[k] * ContentScore(page.text_stats.word_count,
                                                                   page.reading_ease)
          [] k = "policy"          -> WEIGHTS[k] * (IF site.llm_txt_found THEN 1000 ELSE 0)
          [] k = "sitemap"         -> WEIGHTS[k] * (IF site.sitemaps # <<>> THEN 1000 ELSE 0)]

RECURSIVE SumSeq(_)
SumSeq(xs) == IF xs = <<>> THEN 0 ELSE Head(xs) + SumSeq(Tail(xs))

\* sum(components.values())
PageTotal(components) == SumSeq([i \in 1..Len(CATEGORIES) |-> components[CATEGORIES[i]]])

\* page.score and page.breakdown of one page
ScoredPage(page, components) ==
    [page EXCEPT !.score = Round1(PageTotal(components), 1),
                 !.breakdown = [k \in DOMAIN WEIGHTS |-> Round1(components[k], 1)]]

\* ScoredSite that forgets to divide the totals by the number of pages
ScoredSiteTotals(site, comps) ==
    [site EXCEPT
        !.pages = [i \in 1..Len(comps) |-> ScoredPage(site.pages[i], comps[i])],
        !.score = Round1(SumSeq([i \in 1..Len(comps) |-> PageTotal(comps[i])]), 1),
        !.breakdown = [k \in DOMAIN WEIGHTS |->
                          Round1(SumSeq([i \in 1..Len(comps) |-> comps[i][k]]), 1)],
        !.page = Some(ScoredPage(site.pages[1], comps[1]))]

\* the loop over site.pages, given the components of every page
ScoredSite(site, comps) ==
    [site EXCEPT
        !.pages = [i \in 1..Len(comps) |-> ScoredPage(site.pages[i], comps[i])],
        !.score = Round1(SumSeq([i \in 1..Len(comps) |-> PageTotal(comps[i])]),
                         Len(comps)),
        !.breakdown = [k \in DOMAIN WEIGHTS |->
                          Round1(SumSeq([i \in 1..Len(comps) |-> comps[i][k]]),
                                 Len(comps))],
        !.page = Some(ScoredPage(site.pages[1], comps[1]))]

\* audit.score_site: the site after scoring
score_site(site) ==
    IF site.pages = <<>>
    THEN [site EXCEPT !.score = 0, !.breakdown = [k \in DOMAIN WEIGHTS |-> 0]]
    ELSE ScoredSite(site, [i \in 1..Len(site.pages) |->
                              _score_components(site.pages[i], site)])

(***************************************************************************)
(* Recommendations.  The en dashes of the source's messages are written    *)
(* "-" here.                                                               *)
(***************************************************************************)
REC_FAILED == "Failed to fetch any pages."

REC_SITEMAP == "Expose a Sitemap in robots.txt for better discovery."

REC_LLM == "Publish /.well-known/llm.txt with LLM crawl/citation policy."

\* if c: recs.append(rec)
If(c, rec) == IF c THEN <<rec>> ELSE <<>>

\* audit._page_recommendations
_page_recommendations(page) ==
    If(page.blocked_by_robots,
       "Allow the page in robots.txt (avoid disallowing this path).")
    \o If(NoIndex(page),
          "Remove 'noindex'/'nofollow' meta robots for LLM discoverability.")
    \o If(~LenIn(page.title, 10, 65),
          "Add a concise, descriptive <title> (10-65 chars).")
    \o If(~LenIn(page.description, 50, 160),
          "Add a meta description (50-160 chars) summarizing the page.")
    \o If(~Truthy(page.canonical), "Add a canonical <link> to prevent duplication.")
    \o If(~page.has_lang_attr,
          "Set the <html lang=\"...\"> attribute for language clarity.")
    \o If(page.headings.h1 = <<>>, "Include a single, clear H1 headline.")
    \o If(Len(page.headings.h2) < 2, "Structure content with multiple H2 sections.")
    \o If(Len(page.headings.h3) < 2, "Use H3 subsections to organize details.")
    \o If(page.semantic_tags_present = <<>>,
          "Use semantic HTML (<article>, <section>, <main>, etc.).")
    \o (IF page.json_ld_types = <<>>
        THEN <<"Add JSON-LD structured data (WebSite/Organization/Article/FAQ).">>
        ELSE If(~page.has_faq_schema,
                "Add FAQPage JSON-LD for common questions and answers."))
    \o If(page.text_stats.word_count < 400,
          "Increase content depth to 400-800+ words of unique text.")

RECURSIVE AllMessagesLastFirst(_, _)
\* AllMessages that walks site.pages from the last page to the first
AllMessagesLastFirst(pages, multi_page) ==
    IF pages = <<>> THEN <<>>
    ELSE AllMessagesLastFirst(Tail(pages), multi_page)
         \o [i \in 1..Len(_page_recommendations(Head(pages))) |->
                IF multi_page
                THEN "[" \o Head(pages).url \o "] " \o _page_recommendations(Head(pages))[i]
                ELSE _page_recommendations(Head(pages))[i]]

RECURSIVE AllMessages(_, _)
\* the messages of all pages, in crawl order, before deduplication:
\* message = rec if not multi_page else f"[{page.url}] {rec}"
AllMessages(pages, multi_page) ==
    IF pages = <<>> THEN <<>>
    ELSE [i \in 1..Len(_page_recommendations(Head(pages))) |->
             IF multi_page
             THEN "[" \o Head(pages).url \o "] " \o _page_recommendations(Head(pages))[i]
             ELSE _page_recommendations(Head(pages))[i]]
         \o AllMessages(Tail(pages), multi_page)

\* page.recommendations = _page_recommendations(page)
WithRecommendations(page) ==
    [page EXCEPT !.recommendations = _page_recommendations(page)]

\* derive_recommendations that appends the two site-level messages whatever
\* the site has
derive_recommendationsAlways(site) ==
    IF site.pages = <<>>
    THEN [site EXCEPT !.recommendations = <<REC_FAILED>>]
    ELSE [site EXCEPT
            !.pages = [i \in 1..Len(site.pages) |-> WithRecommendations(site.pages[i])],
            !.page = IF site.page.some THEN Some(WithRecommendations(site.page.v))
                     ELSE None,
            !.recommendations =
                Dedupe(AllMessages(site.pages, Len(site.pages) > 1), <<>>)
                \o <<REC_SITEMAP, REC_LLM>>]

\* audit.derive_recommendations: the site after it (site.page is the same
\* object as site.pages[0] once score_site has run)
derive_recommendations(site) ==
    IF site.pages = <<>>
    THEN [site EXCEPT !.recommendations = <<REC_FAILED>>]
    ELSE [site EXCEPT
            !.pages = [i \in 1..Len(site.pages) |-> WithRecommendations(site.pages[i])],
            !.page = IF site.page.some THEN Some(WithRecommendations(site.page.v))
                     ELSE None,
            !.recommendations =
                Dedupe(AllMessages(site.pages, Len(site.pages) > 1), <<>>)
                \o If(site.sitemaps = <<>>, REC_SITEMAP)
                \o If(~site.llm_txt_found, REC_LLM)]

(***************************************************************************)
(* Keywords.  A keyword score is kept in tenths of a point.                *)
(***************************************************************************)
STOPWORDS ==
    {"the", "that", "with", "this", "from", "have", "your", "about", "their",
     "there", "will", "would", "could", "should", "into", "while", "where",
     "these", "those", "what", "when", "which", "were", "been", "them",
     "they", "also", "than", "then", "over", "such", "only", "some", "more",
     "most", "many", "each", "other", "ours", "ourselves", "yours", "itself",
     "it", "here", "make", "made", "just", "very", "much", "like", "does",
     "doesn", "again", "even", "through", "within", "across", "because",
     "after", "before", "under", "above", "upon", "once", "every", "being",
     "same", "another", "including", "include", "between", "might", "shall"}

max_keywords == 10

max_terms == 12

\* len(t) > 3 and t not in STOPWORDS
KeepToken(t) == Len(t) > 3 /\ t \notin STOPWORDS

\* audit.tokenize_for_keywords of an Optional[str]
tokenize_for_keywords(text) ==
    IF ~Truthy(text) THEN <<>> ELSE SelectSeq(FindWords(Lower(text.v), 1), KeepToken)

RECURSIVE VisibleWords(_)
\* re.findall(r"[A-Za-z']+", text.lower()) of the visible text: the words
\* utils.extract_visible_text leaves of each piece of the document
VisibleWords(html) ==
    IF html = <<>> THEN <<>>
    ELSE (IF Head(html).tag \in {"title", "h1", "h2", "h3"}
          THEN FindWords(Lower(Head(html).val), 1)
          ELSE Head(html).words)
         \o VisibleWords(Tail(html))

SetOf(xs) == {xs[i] : i \in 1..Len(xs)}

\* the set a loop of h_tokens.update(tokenize_for_keywords(h)) builds
HeadingTokens(hs) == UNION {SetOf(tokenize_for_keywords(Some(hs[i]))) : i \in 1..Len(hs)}

\* Counter(tokens)[t]
Count(tokens, t) == Cardinality({i \in 1..Len(tokens) : tokens[i] = t})

\* max(frequencies.values())
MaxFreq(tokens) ==
    CHOOSE m \in {Count(tokens, t) : t \in SetOf(tokens)} :
        \A t \in SetOf(tokens) : Count(tokens, t) <= m

\* one iteration of the loop over frequencies.items()
KeywordInsight(term, freq, max_freq, in_title, in_h1, in_h2, in_h3, in_description) ==
    [term |-> term,
     score |-> Round1(clamp(60000 * freq
                            + max_freq * ((IF in_title THEN 25000 ELSE 0)
                                          + (IF in_h1 THEN 15000 ELSE 0)
                                          + (IF in_h2 THEN 10000 ELSE 0)
                                          + (IF in_h3 THEN 5000 ELSE 0)
                                          + (IF in_description THEN 5000 ELSE 0)),
                            0, 100000 * max_freq),
                      max_freq),
     frequency |-> freq,
     in_title |-> in_title,
     in_headings |-> in_h1 \/ in_h2 \/ in_h3,
     in_description |-> in_description]

\* the loop over frequencies.items(): the insights in the order of
\* Counter(tokens), that of first occurrences
Insights(tokens, terms, max_freq, title_tokens, h1, h2, h3, desc_tokens) ==
    [i \in 1..Len(terms) |->
        KeywordInsight(terms[i], Count(tokens, terms[i]), max_freq,
                       terms[i] \in title_tokens, terms[i] \in h1, terms[i] \in h2,
                       terms[i] \in h3, terms[i] \in desc_tokens)]

\* one sort key (score, count) is greater than another
KeyGt(a, b) == a[1] > b[1] \/ (a[1] = b[1] /\ a[2] > b[2])

\* the place the i-th element takes in a sort with reverse=True: after every
\* element with a greater key and after the earlier elements with an equal key
Rank(keys, i) ==
    1 + Cardinality({j \in 1..Len(keys) :
                        KeyGt(keys[j], keys[i]) \/ (j < i /\ ~KeyGt(keys[i], keys[j]))})

\* list.sort(key=..., reverse=True), keys[i] being the key of xs[i]:
\* descending and stable
SortedDesc(xs, keys) ==
    [p \in 1..Len(xs) |-> xs[CHOOSE i \in 1..Len(xs) : Rank(keys, i) = p]]

\* Take that keeps the whole list
TakeAll(xs, n) == xs

\* xs[:n]
Take(xs, n) == SubSeq(xs, 1, IF Len(xs) < n THEN Len(xs) ELSE n)

\* SortedInsights that leaves the insights in Counter order
SortedInsightsNot(insights) == insights

\* insights.sort(key=lambda k: (k.score, k.frequency), reverse=True)
SortedInsights(insights) ==
    SortedDesc(insights, [i \in 1..Len(insights) |->
                             <<insights[i].score, insights[i].frequency>>])

\* extract_keywords from the tokens of the body text on
KeywordsOf(tokens, title, headings, description, limit) ==
    IF tokens = <<>> THEN <<>>
    ELSE Take(SortedInsights(Insights(tokens, Dedupe(tokens, <<>>), MaxFreq(tokens),
                                      SetOf(tokenize_for_keywords(title)),
                                      HeadingTokens(headings.h1),
                                      HeadingTokens(headings.h2),
                                      HeadingTokens(headings.h3),
                                      SetOf(tokenize_for_keywords(description)))),
              limit)

\* audit.extract_keywords, on the document the body text is taken from:
\* tokens = tokenize_for_keywords(body_text)
extract_keywords(html, title, headings, description, limit) ==
    KeywordsOf(SelectSeq(VisibleWords(html), KeepToken), title, headings,
               description, limit)

RECURSIVE AllKeywords(_)
\* the keywords of all pages, in crawl order
AllKeywords(pages) ==
    IF pages = <<>> THEN <<>> ELSE Head(pages).keywords \o AllKeywords(Tail(pages))

\* buckets[term]: the scores of the term, one per page that has it
Bucket(kws, term) ==
    [i \in 1..Len(SelectSeq(kws, LAMBDA k : k.term = term)) |->
        SelectSeq(kws, LAMBDA k : k.term = term)[i].score]

\* KeywordSummary(term=term, score=round(avg, 1), pages=len(scores))
KeywordSummary(term, scores) ==
    [term |-> term, score |-> Round1(100 * SumSeq(scores), Len(scores)),
     pages |-> Len(scores)]

\* summaries.sort(key=lambda s: (s.score, s.pages), reverse=True)
SortedSummaries(summaries) ==
    SortedDesc(summaries, [i \in 1..Len(summaries) |->
                              <<summaries[i].score, summaries[i].pages>>])

\* the loop over buckets.items(): one summary per term, in the order of the
\* terms' first occurrences
Summaries(kws, terms) ==
    [i \in 1..Len(terms) |-> KeywordSummary(terms[i], Bucket(kws, terms[i]))]

\* audit.aggregate_keywords
aggregate_keywords(site, limit) ==
    Take(SortedSummaries(
             Summaries(AllKeywords(site.pages),
                       Dedupe([i \in 1..Len(AllKeywords(site.pages)) |->
                                  AllKeywords(site.pages)[i].term], <<>>))),
         limit)

(***************************************************************************)
(* The environment: what the caller passes and what fetch answers.         *)
(***************************************************************************)
\* the largest max_pages argument a caller passes
MaxPagesArg == 4

\* values of the url argument: a bare host, a padded URL with upper-case
\* scheme, path, query and fragment, and inputs without a host
SeedInputs == {"a", " HTTP://b/p?x=1#f ", "/just/a/path", "   "}

\* fetch raised (requests.RequestException: timeout, connection error)
Raised == [raised |-> TRUE, status |-> 0, text |-> "", html |-> <<>>]

\* fetch returned: resp.status_code, resp.text, and what the regular
\* expressions of the code match in resp.text
Response(status, text, html) ==
    [raised |-> FALSE, status |-> status, text |-> text, html |-> html]

RobotsBody ==
    "# robots\nUser-agent: *\nDisallow: /p\nAllow: /p/x\nDisallow:\n"
    \o "Sitemap: https://a/s.xml\n sitemap: https://a/s.xml \nSITEMAP:https://a/t.xml"

DocLinks ==
    <<Title("Short"), Anchor("/p"), Anchor(" /q "), Anchor("/p#again"), Text(120, 70, <<"crawl", "pages", "crawl", "with", "short", "links">>)>>

\* with the title, thirteen distinct keyword candidates: more than
\* max_keywords and max_terms
DocRich ==
    <<HtmlLang, Title("A page about crawling"), MetaName("Description", "short"),
      MetaProp("og:title", "Crawling"), MetaName("ROBOTS", "NoIndex, follow"),
      LinkRel("Canonical", "/p"), Heading("h1", "Crawling"), Heading("h2", "How"),
      Heading("h2", "Why"), Semantic("main"), Anchor("/"), Anchor("/p/x"),
      LdJson(JOther("invalid")),
      LdJson(JList(<<JObject(ListType(<<"Article", "FAQPage">>)),
                     JObject(StrType("Article")), JObject(NoType)>>)),
      Text(800, 60,
           <<"crawling", "budget", "crawling", "robots", "sitemap", "index",
             "canonical", "schema", "markup", "heading", "metadata", "policy",
             "don't", "crawling", "which", "is", "page">>)>>

DocMissing == <<Title("Not found"), Anchor("/r"), Text(2, 100, <<>>)>>

DocFilters ==
    <<Anchor("/p#f"), Anchor("http://b/p"), Anchor("#top"), Anchor("mailto:x"),
      Anchor("JavaScript:void(0)"), Anchor("https://b/q"), Anchor("http://a/"),
      Anchor("/i.PNG"), Anchor("?x=1"), Anchor("q"), Text(400, 30, <<"filters", "don't", "follow", "images">>)>>

DocProbes == <<Anchor("/robots.txt"), Anchor("/llm.txt"), Anchor("/p"), Text(10, 0, <<>>)>>

DocScalarLd == <<Title("Scalar"), LdJson(JOther("scalar")), Anchor("/p"), Text(1, 0, <<>>)>>

DocListLd ==
    <<LdJson(JObject(StrType("WebSite"))),
      LdJson(JList(<<JObject(StrType("Article")), JOther("scalar")>>))>>

DocBack == <<Anchor("/p?x=1"), Anchor("/q"), Anchor("/r"), Text(200, 60, <<"back", "link", "back">>)>>

DocNext == <<Title("One link to follow"), Anchor("/p"), Text(300, 45, <<"link", "next", "page">>)>>

DocFaq ==
    <<LdJson(JOther("invalid")), LdJson(JObject(StrType("faqpage"))), Heading("h3", "Q1"),
      Heading("h3", "Q2"),
      Text(450, 55, <<"question", "answer", "question", "crawling">>)>>

\* RobotsBody as a crawled page: plain text, no tag matches, only its words
RobotsText ==
    <<Text(24, 49,
           <<"robots", "user", "agent", "disallow", "p", "allow", "p", "x",
             "disallow", "sitemap", "https", "a", "s", "xml", "sitemap", "https",
             "a", "s", "xml", "sitemap", "https", "a", "t", "xml">>)>>

NotFound == Response(404, "Not Found", <<Text(2, 120, <<"not", "found">>)>>)

\* the answers fetch can give for a URL
Web(u) ==
    CASE u = "https://a/robots.txt" ->
            {Raised, Response(404, RobotsBody, RobotsText), Response(200, "", <<>>),
             Response(200, RobotsBody, RobotsText)}
      [] u = "https://a/.well-known/llm.txt" ->
            {Raised, NotFound, Response(200, "", <<>>),
             Response(200, "policy-1", <<Text(1, -48, <<"policy">>)>>)}
      [] u = "https://a/llm.txt" ->
            {Raised, Response(200, "", <<>>), Response(200, "policy-2", <<Text(1, -48, <<"policy">>)>>)}
      [] u = "https://a/" -> {Raised, Response(200, "<html>links", DocLinks)}
      [] u = "https://a/p" -> {Response(200, "<html>rich", DocRich)}
      [] u = "https://a/q" -> {Response(404, "<html>missing", DocMissing)}
      [] u = "https://a/p/x" -> {Response(200, "", <<>>)}
      [] u = "http://b/robots.txt" -> {Response(200, "Disallow: /p", <<Text(2, 36, <<"disallow", "p">>)>>)}
      [] u = "http://b/p?x=1" ->
            {Raised, Response(500, "", <<>>),
             Response(200, "<html>filters", DocFilters),
             Response(200, "<html>probes", DocProbes),
             Response(200, "<html>scalar", DocScalarLd),
             Response(200, "<html>next", DocNext)}
      [] u = "http://b/p" ->
            {Response(200, "<html>list", DocListLd), Response(200, "<html>back", DocBack)}
      [] u = "http://b/q" -> {Raised, Response(200, "<html>faq", DocFaq)}
      [] OTHER -> {NotFound}

(***************************************************************************)
(* State of one audit_url(url, max_pages) call.                            *)
(***************************************************************************)
VARIABLES
    pc,              \* where the call is: call, robots, llm, crawl, done, raised
    arg_url,         \* the url argument
    arg_max_pages,   \* the max_pages argument
    url,             \* the normalized seed (base_url)
    max_pages,       \* max(1, max_pages)
    site,            \* the SiteAudit under construction
    disallow_paths,
    cand,            \* index of the next llm.txt candidate
    queue,
    visited,
    fetches,         \* every call of fetch so far: its url and its outcome
    enqueued,        \* every url ever put on the queue, with the page it came from
    exc,             \* the exception audit_url raised, "" when none
    other            \* the locals of a second audit_url call, suspended while
                     \* this one runs; <<>> when the call runs alone

vars ==
    <<pc, arg_url, arg_max_pages, url, max_pages, site, disallow_paths, cand,
      queue, visited, fetches, enqueued, exc, other>>

\* SiteAudit(base_url=url, robots_txt=None)
SiteAudit(base_url) ==
    [base_url |-> base_url, robots_txt |-> None, sitemaps |-> <<>>,
     llm_txt_url |-> None, llm_txt_found |-> FALSE, llm_txt_body |-> None,
     page |-> None, pages |-> <<>>, score |-> 0, breakdown |-> <<>>,
     recommendations |-> <<>>, keywords |-> <<>>]

\* f"{parsed.scheme}://{parsed.netloc}"
Origin(u) == urlparse(u, "").scheme \o "://" \o urlparse(u, "").netloc

\* LlmCandidates with a third candidate
LlmCandidatesThree(u) ==
    <<Origin(u) \o "/.well-known/llm.txt", Origin(u) \o "/llm.txt",
      Origin(u) \o "/llms.txt">>

\* candidates = [f"{origin}/.well-known/llm.txt", f"{origin}/llm.txt"]
LlmCandidates(u) == <<Origin(u) \o "/.well-known/llm.txt", Origin(u) \o "/llm.txt">>

\* the entry of the fetch log for one call of fetch
Fetched(stage, u, r) ==
    [stage |-> stage, url |-> u, raised |-> r.raised, status |-> r.status,
     body |-> r.text]

\* 200 <= status < 300 and body
Usable(r) == ~r.raised /\ 200 <= r.status /\ r.status < 300 /\ r.text # ""

Init ==
    /\ pc = "call"
    /\ arg_url \in SeedInputs
    /\ arg_max_pages \in 0..MaxPagesArg
    /\ url = ""
    /\ max_pages = 0
    /\ site = SiteAudit("")
    /\ disallow_paths = <<>>
    /\ cand = 1
    /\ queue = <<>>
    /\ visited = {}
    /\ fetches = <<>>
    /\ enqueued = <<>>
    /\ exc = ""
    /\ other = <<>>

\* Call without max(1, max_pages): the argument is the page limit
CallNoFloor ==
    /\ pc = "call"
    /\ IF normalize_url(arg_url).ok
       THEN /\ url' = normalize_url(arg_url).url
            /\ max_pages' = arg_max_pages
            /\ site' = SiteAudit(normalize_url(arg_url).url)
            /\ pc' = "robots"
            /\ exc' = exc
       ELSE /\ pc' = "raised"
            /\ exc' = "ValueError"
            /\ UNCHANGED <<url, max_pages, site>>
    /\ UNCHANGED <<arg_url, arg_max_pages, disallow_paths, cand, queue, visited,
                   fetches, enqueued, other>>

\* audit_url up to the robots.txt fetch: the ValueError of normalize_url
\* leaves audit_url, a url goes on to max(1, max_pages) and
\* SiteAudit(base_url=url)
Call ==
    /\ pc = "call"
    /\ IF normalize_url(arg_url).ok
       THEN /\ url' = normalize_url(arg_url).url
            /\ max_pages' = IF arg_max_pages < 1 THEN 1 ELSE arg_max_pages
            /\ site' = SiteAudit(normalize_url(arg_url).url)
            /\ pc' = "robots"
            /\ exc' = exc
       ELSE /\ pc' = "raised"
            /\ exc' = "ValueError"
            /\ UNCHANGED <<url, max_pages, site>>
    /\ UNCHANGED <<arg_url, arg_max_pages, disallow_paths, cand, queue, visited,
                   fetches, enqueued, other>>

\* RobotsResult without the status test: any non-empty body is parsed
RobotsResultAnyStatus(r) ==
    IF ~r.raised /\ r.text # ""
    THEN [robots_txt |-> Some(r.text), sitemaps |-> parse_robots(r.text).sitemaps,
          disallow |-> parse_robots(r.text).disallow]
    ELSE [robots_txt |-> None, sitemaps |-> <<>>, disallow |-> <<>>]

\* the try block around the robots.txt fetch: what it leaves in
\* (site.robots_txt, site.sitemaps, disallow_paths)
RobotsResult(r) ==
    IF Usable(r)
    THEN [robots_txt |-> Some(r.text), sitemaps |-> parse_robots(r.text).sitemaps,
          disallow |-> parse_robots(r.text).disallow]
    ELSE [robots_txt |-> None, sitemaps |-> <<>>, disallow |-> <<>>]

\* the robots.txt fetch
FetchRobots ==
    /\ pc = "robots"
    /\ \E r \in Web(Origin(url) \o "/robots.txt") :
          /\ fetches' = Append(fetches, Fetched("robots", Origin(url) \o "/robots.txt", r))
          /\ site' = [site EXCEPT !.robots_txt = RobotsResult(r).robots_txt,
                                  !.sitemaps = RobotsResult(r).sitemaps]
          /\ disallow_paths' = RobotsResult(r).disallow
    /\ pc' = "llm"
    /\ UNCHANGED <<arg_url, arg_max_pages, url, max_pages, cand, queue, visited,
                   enqueued, exc, other>>

\* ProbeHit without the break: every candidate is fetched
ProbeHitNoBreak(r) == FALSE

\* the candidate loop breaks after this response
ProbeHit(r) == Usable(r)

\* one iteration of the llm.txt candidate loop: fetch, record a hit, and go
\* on or leave the loop; leaving also runs queue = deque([url]);
\* visited = set()
ProbeLlm ==
    /\ pc = "llm"
    /\ \E r \in Web(LlmCandidates(url)[cand]) :
          /\ fetches' = Append(fetches, Fetched("llm", LlmCandidates(url)[cand], r))
          /\ site' = IF Usable(r)
                     THEN [site EXCEPT !.llm_txt_found = TRUE,
                                       !.llm_txt_url = Some(LlmCandidates(url)[cand]),
                                       !.llm_txt_body = Some(r.text)]
                     ELSE site
          /\ IF ProbeHit(r) \/ cand = Len(LlmCandidates(url))
             THEN /\ pc' = "crawl"
                  /\ queue' = <<url>>
                  /\ enqueued' = <<[url |-> url, from |-> ""]>>
             ELSE UNCHANGED <<pc, queue, enqueued>>
    /\ cand' = cand + 1
    /\ visited' = {}
    /\ UNCHANGED <<arg_url, arg_max_pages, url, max_pages, disallow_paths, exc,
                   other>>

\* PageAudit with a breakdown filled with zeros when the page is recorded
PageAuditZeroFilled(current, status, html, disallow) ==
    [url |-> current,
     status_code |-> status,
     title |-> extract_title(get_head(html)),
     description |-> Or(DictGet(extract_meta(get_head(html)), "name:description"),
                        DictGet(extract_meta(get_head(html)), "prop:og:description")),
     canonical |-> extract_canonical(get_head(html), current),
     og_tags |-> OgTags(extract_meta(get_head(html))),
     has_lang_attr |-> Tagged(html, "html_lang") # <<>>,
     headings |-> Headings(html),
     json_ld_types |-> extract_json_ld_types(html).types,
     has_faq_schema |-> extract_json_ld_types(html).has_faq,
     text_stats |-> word_stats(html),
     reading_ease |-> flesch_reading_ease(html),
     meta_robots |-> DictGet(extract_meta(get_head(html)), "name:robots"),
     blocked_by_robots |-> IF disallow # <<>> THEN check_blocked(disallow, current)
                           ELSE FALSE,
     semantic_tags_present |-> detect_semantic_tags(html),
     keywords |-> extract_keywords(
                      html, extract_title(get_head(html)), Headings(html),
                      Or(DictGet(extract_meta(get_head(html)), "name:description"),
                         DictGet(extract_meta(get_head(html)), "prop:og:description")),
                      max_keywords),
     score |-> 0,
     breakdown |-> [k \in DOMAIN WEIGHTS |-> 0],
     recommendations |-> <<>>]

\* the feature extraction of the crawl loop body and PageAudit(...)
PageAudit(current, status, html, disallow) ==
    [url |-> current,
     status_code |-> status,
     title |-> extract_title(get_head(html)),
     description |-> Or(DictGet(extract_meta(get_head(html)), "name:description"),
                        DictGet(extract_meta(get_head(html)), "prop:og:description")),
     canonical |-> extract_canonical(get_head(html), current),
     og_tags |-> OgTags(extract_meta(get_head(html))),
     has_lang_attr |-> Tagged(html, "html_lang") # <<>>,
     headings |-> Headings(html),
     json_ld_types |-> extract_json_ld_types(html).types,
     has_faq_schema |-> extract_json_ld_types(html).has_faq,
     text_stats |-> word_stats(html),
     reading_ease |-> flesch_reading_ease(html),
     meta_robots |-> DictGet(extract_meta(get_head(html)), "name:robots"),
     blocked_by_robots |-> IF disallow # <<>> THEN check_blocked(disallow, current)
                           ELSE FALSE,
     semantic_tags_present |-> detect_semantic_tags(html),
     keywords |-> extract_keywords(
                      html, extract_title(get_head(html)), Headings(html),
                      Or(DictGet(extract_meta(get_head(html)), "name:description"),
                         DictGet(extract_meta(get_head(html)), "prop:og:description")),
                      max_keywords),
     score |-> 0,
     breakdown |-> <<>>,
     recommendations |-> <<>>]

\* PageFetch with an except branch that reports the failure as a 503
PageFetchAs503(r) ==
    IF r.raised THEN [status |-> 503, text |-> "", html |-> <<>>]
    ELSE [status |-> r.status, text |-> r.text, html |-> r.html]

\* the try/except around the page fetch: status, html (its text and what
\* the regular expressions match in it)
PageFetch(r) ==
    IF r.raised THEN [status |-> 0, text |-> "", html |-> <<>>]
    ELSE [status |-> r.status, text |-> r.text, html |-> r.html]

\* ShouldEnqueue without the same-origin test
ShouldEnqueueAnyOrigin(clean, q, seen, base, current) ==
    /\ clean \notin seen
    /\ _should_follow(clean)
    /\ clean # current
    /\ ~\E i \in 1..Len(q) : q[i] = clean

\* the five tests of the enqueue loop: TRUE when clean is appended
ShouldEnqueue(clean, q, seen, base, current) ==
    /\ clean \notin seen
    /\ is_same_origin(base, clean)
    /\ _should_follow(clean)
    /\ clean # current
    /\ ~\E i \in 1..Len(q) : q[i] = clean

RECURSIVE EnqueueLoop(_, _, _, _, _)
\* for link in extract_links(...): clean = link.split("#", 1)[0]; ...
\* queue.append(clean)
EnqueueLoop(links, q, seen, base, current) ==
    IF links = <<>> THEN q
    ELSE EnqueueLoop(Tail(links),
                     IF ShouldEnqueue(Before(Head(links), "#"), q, seen, base, current)
                     THEN Append(q, Before(Head(links), "#"))
                     ELSE q,
                     seen, base, current)

\* LoopCond without the page limit: the loop runs until the queue is empty
LoopCondNoLimit(q, pages, mp) == q # <<>>

\* while queue and len(site.pages) < max_pages
LoopCond(q, pages, mp) == q # <<>> /\ Len(pages) < mp

\* FollowLinks without the page limit: links are enqueued from every page
FollowLinksNoLimit(text, pages, mp) == text # ""

\* if html and len(site.pages) < max_pages
FollowLinks(text, pages, mp) == text # "" /\ Len(pages) < mp

\* MarkVisited that forgets the page
MarkVisitedNot(seen, current) == seen

\* visited.add(current)
MarkVisited(seen, current) == seen \cup {current}

\* Enqueue that puts the links of the page before the URLs already queued
EnqueueFront(current, rest, f, pages) ==
    IF FollowLinks(f.text, pages, max_pages)
    THEN SubSeq(EnqueueLoop(extract_links(current, f.html, MAX_LINKS_PER_PAGE), rest,
                            MarkVisited(visited, current), url, current),
                Len(rest) + 1,
                Len(EnqueueLoop(extract_links(current, f.html, MAX_LINKS_PER_PAGE), rest,
                                MarkVisited(visited, current), url, current)))
         \o rest
    ELSE rest

\* the queue after the enqueue loop of the page
Enqueue(current, rest, f, pages) ==
    IF FollowLinks(f.text, pages, max_pages)
    THEN EnqueueLoop(extract_links(current, f.html, MAX_LINKS_PER_PAGE), rest,
                     MarkVisited(visited, current), url, current)
    ELSE rest

\* site.pages.append(page) and the enqueue loop; what it appended to the
\* queue is logged
Record(current, rest, q, pages) ==
    /\ site' = [site EXCEPT !.pages = pages]
    /\ queue' = q
    /\ enqueued' = enqueued \o [i \in 1..(Len(q) - Len(rest)) |->
                                   [url |-> q[Len(rest) + i], from |-> current]]
    /\ UNCHANGED <<pc, exc>>

\* the loop body after visited.add(current): the AttributeError of
\* extract_json_ld_types leaves audit_url, otherwise the page is recorded
Visit(current, rest, r, f) ==
    /\ visited' = MarkVisited(visited, current)
    /\ fetches' = Append(fetches, Fetched("page", current, r))
    /\ IF ~extract_json_ld_types(f.html).ok
       THEN /\ pc' = "raised"
            /\ exc' = "AttributeError"
            /\ queue' = rest
            /\ UNCHANGED <<site, enqueued>>
       ELSE Record(current, rest,
                   Enqueue(current, rest, f,
                           Append(site.pages,
                                  PageAudit(current, f.status, f.html, disallow_paths))),
                   Append(site.pages,
                          PageAudit(current, f.status, f.html, disallow_paths)))

\* one iteration of the crawl loop
CrawlStep ==
    /\ pc = "crawl"
    /\ LoopCond(queue, site.pages, max_pages)
    /\ IF Head(queue) \in visited
       THEN /\ queue' = Tail(queue)
            /\ UNCHANGED <<pc, site, visited, fetches, enqueued, exc>>
       ELSE \E r \in Web(Head(queue)) : Visit(Head(queue), Tail(queue), r, PageFetch(r))
    /\ UNCHANGED <<arg_url, arg_max_pages, url, max_pages, disallow_paths, cand,
                   other>>

\* after the loop: score_site, aggregate_keywords, derive_recommendations,
\* return site
Finish ==
    /\ pc = "crawl"
    /\ ~LoopCond(queue, site.pages, max_pages)
    /\ site' = derive_recommendations(
                   [score_site(site) EXCEPT
                       !.keywords = aggregate_keywords(score_site(site), max_terms)])
    /\ pc' = "done"
    /\ UNCHANGED <<arg_url, arg_max_pages, url, max_pages, disallow_paths, cand,
                   queue, visited, fetches, enqueued, exc, other>>

Next == Call \/ FetchRobots \/ ProbeLlm \/ CrawlStep \/ Finish

Spec == Init /\ [][Next]_vars


(***************************************************************************)
(* The functions of utils.py and audit.py called on their own.  The url    *)
(* argument is put together from an optional scheme prefix, a host, a      *)
(* path, a query and a fragment, padded or not; normalize_url is applied   *)
(* to it and then to its own result.  A page body is put together from a   *)
(* head / structure part and a text part; the pages audited from such      *)
(* bodies are scored, their keywords aggregated and the recommendations    *)
(* derived as audit_url does after its crawl loop.                         *)
(***************************************************************************)
\* the largest number of pages of a site handed to score_site
FnPages == 2

\* either a url argument for normalize_url (taken up by Call), or a site
\* without pages after the probes and an empty crawl queue
FnInit ==
    /\ pc \in {"call", "crawl"}
    /\ IF pc = "call"
       THEN arg_url \in {pad \o s \o h \o p \o q \o f \o pad :
                            pad \in {"", " "}, s \in {"", "HTTP://", "//"},
                            h \in {"", "example.com", "localhost:8000"},
                            p \in {"", "/path"}, q \in {"", "?", "?x=1"},
                            f \in {"", "#f", " #f"}}
       ELSE arg_url = ""
    /\ arg_max_pages = 1
    /\ url = ""
    /\ max_pages = 1
    /\ IF pc = "call" THEN site = SiteAudit("")
       ELSE \E found \in BOOLEAN :
               site = [SiteAudit("https://a/") EXCEPT
                          !.llm_txt_found = found,
                          !.sitemaps = IF found THEN <<"https://a/s.xml">> ELSE <<>>]
    /\ IF pc = "call" THEN disallow_paths = <<>>
       ELSE disallow_paths \in {<<>>, <<"/p">>}
    /\ cand = 1
    /\ queue = <<>>
    /\ visited = {}
    /\ fetches = <<>>
    /\ enqueued = <<>>
    /\ exc = ""
    /\ other = <<>>

\* normalize_url applied to the url normalize_url returned
Renormalize ==
    /\ pc = "robots"
    /\ IF normalize_url(url).ok
       THEN /\ url' = normalize_url(url).url
            /\ pc' = "renormalized"
            /\ exc' = exc
       ELSE /\ pc' = "raised"
            /\ exc' = "ValueError"
            /\ url' = url
    /\ UNCHANGED <<arg_url, arg_max_pages, max_pages, site, disallow_paths, cand,
                   queue, visited, fetches, enqueued, other>>

\* the feature extraction of one page body and site.pages.append(page); the
\* body is made of head and structure tags and of a text, the pages are /,
\* /p and /q in this order
AuditPage ==
    /\ pc = "crawl"
    /\ Len(site.pages) < FnPages
    /\ \E meta \in {<<>>,
                     <<Title("Short"), MetaName("description", "short"),
                       MetaName("robots", "NOINDEX"), Heading("h1", "Crawling"),
                       LdJson(JObject(StrType("Thing")))>>,
                     <<HtmlLang, Title("A page about crawling"),
                       MetaName("description",
                                "How crawlers read robots, sitemap and policy files."),
                       MetaProp("og:title", "Crawling"),
                       MetaProp("og:description", "Crawling"),
                       LinkRel("canonical", "/p"), Heading("h1", "Crawling budget"),
                       Heading("h2", "Crawling robots"), Heading("h2", "Sitemap"),
                       Heading("h3", "Policy"), Heading("h3", "Schema"),
                       Semantic("article"),
                       LdJson(JObject(ListType(<<"Article", "FAQPage">>)))>>},
          body \in {<<Text(12, 130, <<>>)>>,
                     <<Text(200, 61, <<"robots", "budget", "robots", "is", "with">>)>>,
                     <<Text(400, 130, <<"sitemap", "policy", "audit", "links">>)>>,
                     <<Text(800, 60,
                            <<"crawling", "budget", "crawling", "robots", "sitemap",
                              "index", "canonical", "schema", "markup", "heading",
                              "metadata", "policy", "don't", "crawling", "which",
                              "page", "crawlers", "files">>)>>} :
          site' = [site EXCEPT
                      !.pages = Append(@, PageAudit(
                                     CASE Len(site.pages) = 0 -> "https://a/"
                                       [] Len(site.pages) = 1 -> "https://a/p"
                                       [] OTHER -> "https://a/q",
                                     200, meta \o body, disallow_paths))]
    /\ UNCHANGED <<pc, arg_url, arg_max_pages, url, max_pages, disallow_paths, cand,
                   queue, visited, fetches, enqueued, exc, other>>

FnNext == Call \/ Renormalize \/ AuditPage \/ Finish

FnSpec == FnInit /\ [][FnNext]_vars

(***************************************************************************)
(* Two audit_url calls interleaved.  Everything a call works on is local   *)
(* to it (url, max_pages, site, disallow_paths, the candidate loop, queue, *)
(* visited) or built by it; the tables of the module (WEIGHTS, STOPWORDS,  *)
(* NON_HTML_EXTENSIONS) are only read.  One call runs, the locals of the   *)
(* other are kept aside, and a switch may happen between any two steps.    *)
(***************************************************************************)
\* two calls about to start: one of the site a with two pages, one of the
\* site b with one page
PairInit ==
    /\ pc = "call"
    /\ arg_url = "a"
    /\ arg_max_pages = 2
    /\ url = ""
    /\ max_pages = 0
    /\ site = SiteAudit("")
    /\ disallow_paths = <<>>
    /\ cand = 1
    /\ queue = <<>>
    /\ visited = {}
    /\ fetches = <<>>
    /\ enqueued = <<>>
    /\ exc = ""
    /\ other = [pc |-> "call", arg_url |-> " HTTP://b/p?x=1#f ", arg_max_pages |-> 1,
                url |-> "", max_pages |-> 0, site |-> SiteAudit(""),
                disallow_paths |-> <<>>, cand |-> 1, queue |-> <<>>, visited |-> {},
                fetches |-> <<>>, enqueued |-> <<>>, exc |-> ""]

\* Switch with one queue for both calls, as a module-level deque would be
SwitchSharedQueue ==
    /\ other' = [pc |-> pc, arg_url |-> arg_url, arg_max_pages |-> arg_max_pages,
                 url |-> url, max_pages |-> max_pages, site |-> site,
                 disallow_paths |-> disallow_paths, cand |-> cand, queue |-> queue,
                 visited |-> visited, fetches |-> fetches, enqueued |-> enqueued,
                 exc |-> exc]
    /\ pc' = other.pc
    /\ arg_url' = other.arg_url
    /\ arg_max_pages' = other.arg_max_pages
    /\ url' = other.url
    /\ max_pages' = other.max_pages
    /\ site' = other.site
    /\ disallow_paths' = other.disallow_paths
    /\ cand' = other.cand
    /\ queue' = IF other.pc = "crawl" /\ pc = "crawl" THEN queue ELSE other.queue
    /\ visited' = other.visited
    /\ fetches' = other.fetches
    /\ enqueued' = other.enqueued
    /\ exc' = other.exc

\* the running call is suspended and the other one resumes with its own
\* locals
Switch ==
    /\ other' = [pc |-> pc, arg_url |-> arg_url, arg_max_pages |-> arg_max_pages,
                 url |-> url, max_pages |-> max_pages, site |-> site,
                 disallow_paths |-> disallow_paths, cand |-> cand, queue |-> queue,
                 visited |-> visited, fetches |-> fetches, enqueued |-> enqueued,
                 exc |-> exc]
    /\ pc' = other.pc
    /\ arg_url' = other.arg_url
    /\ arg_max_pages' = other.arg_max_pages
    /\ url' = other.url
    /\ max_pages' = other.max_pages
    /\ site' = other.site
    /\ disallow_paths' = other.disallow_paths
    /\ cand' = other.cand
    /\ queue' = other.queue
    /\ visited' = other.visited
    /\ fetches' = other.fetches
    /\ enqueued' = other.enqueued
    /\ exc' = other.exc

PairNext == Call \/ FetchRobots \/ ProbeLlm \/ CrawlStep \/ Finish \/ Switch

PairSpec == PairInit /\ [][PairNext]_vars
(***************************************************************************)
(* Properties of audit_url.                                                *)
(***************************************************************************)
\* the calls of fetch of one stage, in order
FetchesOf(stage) == SelectSeq(fetches, LAMBDA f : f.stage = stage)

\* the answer was a 2xx status with a non-empty body
Hit(f) == ~f.raised /\ 200 <= f.status /\ f.status < 300 /\ f.body # ""

\* the probes are over: the crawl has started
Crawling == pc \in {"crawl", "done"} \/ (pc = "raised" /\ exc = "AttributeError")

\* C1: when audit_url has returned, pages holds at most max(1, max_pages)
\* records and no two of them have the same url.
C1_PagesBoundedAndDistinct ==
    pc = "done" =>
        /\ Len(site.pages) <= (IF arg_max_pages < 1 THEN 1 ELSE arg_max_pages)
        /\ \A i, j \in 1..Len(site.pages) :
               site.pages[i].url = site.pages[j].url => i = j

\* a crawl that stopped at the page limit with a URL still queued, after a
\* page linked back to an audited page
C1_Witness ==
    /\ pc = "done"
    /\ arg_max_pages = 3
    /\ Len(site.pages) = 3
    /\ queue # <<>>
    /\ site.pages[2].url = "https://a/p"

\* C2 (as claimed): once the seed URL has normalized and fetching has begun,
\* audit_url never raises, whatever the fetches answer.
C2_AlwaysReturns == fetches # <<>> => pc # "raised"

\* C3 (as claimed): the only exception audit_url raises is the invalid-URL
\* ValueError; no page content makes it raise.
C3_OnlyInvalidUrlSurfaces == pc = "raised" => exc = "ValueError"

NoHostInputs == {"/just/a/path", "   "}

\* C4: for a seed URL without a determinable host, audit_url raises the
\* ValueError before any fetch and without having built a SiteAudit.
C4_NoHostRaisesBeforeFetch ==
    (arg_url \in NoHostInputs /\ pc # "call") =>
        /\ pc = "raised"
        /\ exc = "ValueError"
        /\ fetches = <<>>
        /\ site = SiteAudit("")
        /\ queue = <<>>

C4_Witness == arg_url = "/just/a/path" /\ pc = "raised" /\ exc = "ValueError"

\* the feature values PageAudit takes from an empty document
EmptyFeatures(p) ==
    /\ p.title = None /\ p.description = None /\ p.canonical = None
    /\ DOMAIN p.og_tags = {}
    /\ ~p.has_lang_attr
    /\ p.headings = [h1 |-> <<>>, h2 |-> <<>>, h3 |-> <<>>]
    /\ p.json_ld_types = <<>> /\ ~p.has_faq_schema
    /\ p.text_stats.word_count = 0 /\ p.reading_ease = 0
    /\ p.meta_robots = None
    /\ p.semantic_tags_present = <<>>
    /\ p.keywords = <<>>

\* C5: a page fetch that raised still has its PageAudit in pages, with
\* status_code 0 and the features of an empty document, and no URL was
\* enqueued from that page.
C5_FailedFetchRecorded ==
    \A i \in 1..Len(fetches) :
        (fetches[i].stage = "page" /\ fetches[i].raised) =>
            /\ \E k \in 1..Len(site.pages) :
                   /\ site.pages[k].url = fetches[i].url
                   /\ site.pages[k].status_code = 0
                   /\ EmptyFeatures(site.pages[k])
            /\ \A e \in 1..Len(enqueued) : enqueued[e].from # fetches[i].url

\* the fetch of a page other than the seed raised, and the crawl went on
C5_Witness ==
    /\ pc = "done"
    /\ Len(site.pages) = 3
    /\ site.pages[3].url = "http://b/q"
    /\ site.pages[3].status_code = 0
    /\ \E i \in 1..Len(fetches) :
           fetches[i].stage = "page" /\ fetches[i].url = "http://b/q" /\ fetches[i].raised

\* C6 (as claimed): when the fetch of the seed page raised, the result has
\* score 0 and the single recommendation "Failed to fetch any pages.".
C6_SeedFailureGivesEmptyResult ==
    (pc = "done" /\ FetchesOf("page")[1].raised) =>
        /\ site.score = 0
        /\ site.recommendations = <<REC_FAILED>>

\* C7 (as claimed): no URL is passed to fetch twice, probes and page fetches
\* counted together.
C7_EachUrlFetchedOnce ==
    \A i, j \in 1..Len(fetches) : fetches[i].url = fetches[j].url => i = j

\* C7 (amended): no URL is fetched twice as a crawled page and none twice
\* as a probe (robots.txt or an llm.txt candidate).
C7_OncePerRole ==
    \A i, j \in 1..Len(fetches) :
        (/\ fetches[i].url = fetches[j].url
         /\ (fetches[i].stage = "page") = (fetches[j].stage = "page")) => i = j

\* robots.txt was probed and, linked from a page, crawled as a page too
C7_Witness ==
    \E i, j \in 1..Len(fetches) :
        /\ i < j
        /\ fetches[i].url = fetches[j].url
        /\ fetches[i].stage = "robots"
        /\ fetches[j].stage = "page"

\* C8: the llm.txt candidates are fetched in the order /.well-known/llm.txt,
\* /llm.txt; nothing is fetched after a hit; a miss or an exception on the
\* first is followed by the second; llm_txt_found holds iff some candidate
\* was a hit, and llm_txt_url / llm_txt_body are those of the first hit.
C8_LlmProbeOrder ==
    /\ Len(FetchesOf("llm")) <= 2
    /\ \A i \in 1..Len(FetchesOf("llm")) :
           /\ FetchesOf("llm")[i].url
                  = Origin(url) \o (IF i = 1 THEN "/.well-known/llm.txt" ELSE "/llm.txt")
           /\ \A j \in 1..(i - 1) : ~Hit(FetchesOf("llm")[j])
    /\ Crawling =>
           /\ Len(FetchesOf("llm")) >= 1
           /\ ~Hit(FetchesOf("llm")[1]) => Len(FetchesOf("llm")) = 2
           /\ site.llm_txt_found <=>
                  \E i \in 1..Len(FetchesOf("llm")) : Hit(FetchesOf("llm")[i])
           /\ \A i \in 1..Len(FetchesOf("llm")) :
                  Hit(FetchesOf("llm")[i]) =>
                      /\ site.llm_txt_url = Some(FetchesOf("llm")[i].url)
                      /\ site.llm_txt_body = Some(FetchesOf("llm")[i].body)

\* the first candidate raised and the second was the hit
C8_Witness ==
    /\ pc = "done"
    /\ Len(FetchesOf("llm")) = 2
    /\ FetchesOf("llm")[1].raised
    /\ Hit(FetchesOf("llm")[2])
    /\ site.llm_txt_url = Some("https://a/llm.txt")

\* C9: when the robots.txt fetch raised, was not 2xx or had an empty body,
\* robots_txt is None, sitemaps is empty and no audited page is
\* blocked_by_robots.
C9_NoRobotsData ==
    \A i \in 1..Len(fetches) :
        (fetches[i].stage = "robots" /\ ~Hit(fetches[i])) =>
            /\ site.robots_txt = None
            /\ site.sitemaps = <<>>
            /\ \A k \in 1..Len(site.pages) : ~site.pages[k].blocked_by_robots

\* robots.txt answered 404 with a body that disallows /p, and /p was audited
C9_Witness ==
    /\ pc = "done"
    /\ fetches[1].stage = "robots"
    /\ fetches[1].status = 404
    /\ fetches[1].body # ""
    /\ \E k \in 1..Len(site.pages) : site.pages[k].url = "https://a/p"

\* C10 (as claimed): the number of URLs ever placed on the crawl queue, the
\* seed included, never exceeds max_pages.
C10_EnqueuedWithinMaxPages == Crawling => Len(enqueued) <= max_pages

\* C10 (amended): links are enqueued only from the first max_pages - 1
\* recorded pages, so the number of URLs ever placed on the queue never
\* exceeds 1 + MAX_LINKS_PER_PAGE * (max_pages - 1); the number of recorded
\* pages never exceeds max_pages.
C10_EnqueuedBound ==
    /\ Len(enqueued) <= 1 + MAX_LINKS_PER_PAGE * (max_pages - 1) \/ ~Crawling
    /\ Len(site.pages) <= max_pages
    /\ \A e \in 1..Len(enqueued) :
           \/ e = 1 /\ enqueued[e] = [url |-> url, from |-> ""]
           \/ \E k \in 1..(max_pages - 1) :
                  k <= Len(site.pages) /\ site.pages[k].url = enqueued[e].from

\* more URLs were enqueued than max_pages allows to audit
C10_Witness == pc = "done" /\ max_pages = 2 /\ Len(enqueued) = 3


(***************************************************************************)
(* Properties of the scoring functions.                                    *)
(***************************************************************************)
\* the audited and scored pages are in site.pages
Scored == pc = "done" /\ site.pages # <<>>

\* |a - b|
Dist(a, b) == IF a < b THEN b - a ELSE a - b

\* C11: the weights are 15, 20, 20, 15, 15, 10, 5 and sum to 100; each of
\* the seven contributions _score_components computes for a page lies
\* between 0 and the weight of its category, so the page score lies between
\* 0 and 100; the same holds for the rounded values score_site stores.
C11_ContributionsWithinWeights ==
    /\ [i \in 1..Len(CATEGORIES) |-> WEIGHTS[CATEGORIES[i]]]
           = <<15, 20, 20, 15, 15, 10, 5>>
    /\ SumSeq([i \in 1..Len(CATEGORIES) |-> WEIGHTS[CATEGORIES[i]]]) = 100
    /\ \A i \in 1..Len(site.pages) :
           /\ \A k \in DOMAIN WEIGHTS :
                  /\ 0 <= _score_components(site.pages[i], site)[k]
                  /\ _score_components(site.pages[i], site)[k] <= 1000 * WEIGHTS[k]
           /\ 0 <= PageTotal(_score_components(site.pages[i], site))
           /\ PageTotal(_score_components(site.pages[i], site)) <= 100000
           /\ pc = "done" =>
                  /\ \A k \in DOMAIN WEIGHTS :
                         site.pages[i].breakdown[k] \in 0..(10 * WEIGHTS[k])
                  /\ site.pages[i].score \in 0..1000

\* a scored page with metadata and structure at their full weight, a reading
\* ease beyond the clamped range and, being blocked, no indexability
C11_Witness ==
    /\ Scored
    /\ \E i \in 1..Len(site.pages) :
           /\ site.pages[i].breakdown["metadata"] = 200
           /\ site.pages[i].breakdown["structure"] = 200
           /\ site.pages[i].breakdown["indexability"] = 0
           /\ site.pages[i].breakdown["content_depth"] = 0
           /\ site.pages[i].reading_ease = 130

\* C12: a page with blocked_by_robots has an indexability contribution of
\* exactly 0, whatever its meta_robots and its other fields.
C12_BlockedScoresNoIndexability ==
    \A i \in 1..Len(site.pages) :
        site.pages[i].blocked_by_robots =>
            /\ _score_components(site.pages[i], site)["indexability"] = 0
            /\ pc = "done" => site.pages[i].breakdown["indexability"] = 0

\* a scored page that is blocked and carries a noindex meta robots, next to
\* an unblocked noindex page that keeps 4.5 points
C12_Witness ==
    /\ Scored
    /\ Len(site.pages) = 2
    /\ site.pages[2].blocked_by_robots
    /\ site.pages[2].meta_robots = Some("NOINDEX")
    /\ site.pages[2].score > 0
    /\ ~site.pages[1].blocked_by_robots
    /\ site.pages[1].breakdown["indexability"] = 45

\* C13 (as claimed): the site score is the arithmetic mean of the stored
\* (rounded) page scores, and each site breakdown entry the mean of the
\* stored page breakdown values of its category.
C13_SiteScoreIsMeanOfStored ==
    Scored =>
        /\ Len(site.pages) * site.score
               = SumSeq([i \in 1..Len(site.pages) |-> site.pages[i].score])
        /\ \A k \in DOMAIN WEIGHTS :
               Len(site.pages) * site.breakdown[k]
                   = SumSeq([i \in 1..Len(site.pages) |-> site.pages[i].breakdown[k]])

\* C13 (amended): the site score is the mean of the unrounded page totals,
\* rounded to one decimal (the tenth nearest to that mean), and so is each
\* breakdown entry for the unrounded contributions of its category; they
\* lie within 0.1 of the mean of the stored page values.  Without pages the
\* score is 0 and the breakdown all zero.
C13_SiteScoreIsRoundedMean ==
    pc = "done" =>
        IF site.pages = <<>>
        THEN site.score = 0 /\ site.breakdown = [k \in DOMAIN WEIGHTS |-> 0]
        ELSE /\ 2 * Dist(100 * Len(site.pages) * site.score,
                         SumSeq([i \in 1..Len(site.pages) |->
                                    PageTotal(_score_components(site.pages[i], site))]))
                    <= 100 * Len(site.pages)
             /\ Dist(Len(site.pages) * site.score,
                     SumSeq([i \in 1..Len(site.pages) |-> site.pages[i].score]))
                    <= Len(site.pages)
             /\ \A k \in DOMAIN WEIGHTS :
                    /\ 2 * Dist(100 * Len(site.pages) * site.breakdown[k],
                                SumSeq([i \in 1..Len(site.pages) |->
                                           _score_components(site.pages[i], site)[k]]))
                           <= 100 * Len(site.pages)
                    /\ Dist(Len(site.pages) * site.breakdown[k],
                            SumSeq([i \in 1..Len(site.pages) |->
                                       site.pages[i].breakdown[k]]))
                           <= Len(site.pages)

\* two scored pages whose stored scores have a mean that is no multiple of
\* 0.1, so that the site score cannot equal it
C13_Witness ==
    /\ Scored
    /\ Len(site.pages) = 2
    /\ (site.pages[1].score + site.pages[2].score) % 2 = 1
    /\ 2 * site.score # site.pages[1].score + site.pages[2].score

(***************************************************************************)
(* Properties of derive_recommendations and parse_robots.                  *)
(***************************************************************************)
\* the message derive_recommendations makes of the a-th recommendation of
\* the i-th page
Message(i, a) ==
    IF Len(site.pages) > 1
    THEN "[" \o site.pages[i].url \o "] " \o site.pages[i].recommendations[a]
    ELSE site.pages[i].recommendations[a]

\* where a message stands in site.recommendations
Place(m) == CHOOSE n \in 1..Len(site.recommendations) : site.recommendations[n] = m

\* C14: after derive_recommendations, site.recommendations holds no message
\* twice; it holds the message of every page recommendation, pages in crawl
\* order and the recommendations of a page in their order, and nothing else
\* but the two site-level messages.
C14_RecommendationsDistinctInCrawlOrder ==
    pc = "done" =>
        /\ \A n, m \in 1..Len(site.recommendations) :
               site.recommendations[n] = site.recommendations[m] => n = m
        /\ \A i \in 1..Len(site.pages) :
               \A a \in 1..Len(site.pages[i].recommendations) :
                   /\ \E n \in 1..Len(site.recommendations) :
                          site.recommendations[n] = Message(i, a)
                   /\ \A j \in 1..Len(site.pages) :
                          \A b \in 1..Len(site.pages[j].recommendations) :
                              (i < j \/ (i = j /\ a < b)) =>
                                  Place(Message(i, a)) <= Place(Message(j, b))
        /\ \A n \in 1..Len(site.recommendations) :
               \/ site.recommendations[n] \in {REC_SITEMAP, REC_LLM}
               \/ \E i \in 1..Len(site.pages) :
                      \E a \in 1..Len(site.pages[i].recommendations) :
                          site.recommendations[n] = Message(i, a)

\* three audited pages, the first two with the same recommendation, which
\* the site list holds once per page, the first page's before the second's
C14_Witness ==
    /\ pc = "done"
    /\ Len(site.pages) = 3
    /\ \E a \in 1..Len(site.pages[1].recommendations) :
           \E b \in 1..Len(site.pages[2].recommendations) :
               /\ site.pages[1].recommendations[a] = site.pages[2].recommendations[b]
               /\ Place(Message(1, a)) < Place(Message(2, b))

\* C15 (as claimed): site.sitemaps holds each sitemap URL at most once.
C15_SitemapsDistinct ==
    \A i, j \in 1..Len(site.sitemaps) : site.sitemaps[i] = site.sitemaps[j] => i = j

(***************************************************************************)
(* Properties of normalize_url.  After Call, site.base_url keeps what the  *)
(* first application returned.                                             *)
(***************************************************************************)
\* C16 (as claimed): normalize_url applied to a URL it returned succeeds and
\* returns that URL again.
C16_NormalizeIdempotent ==
    /\ pc = "renormalized" => url = site.base_url
    /\ ~(pc = "raised" /\ site.base_url # "")

\* C17: an input made of a host (with or without port), an optional path,
\* query and fragment, and no scheme, padded with blanks or not, normalizes
\* to https://host, then the path or "/" when there is none, then the query
\* when it is not empty, and no fragment.
C17_SchemelessHostGetsHttps ==
    \A pad \in {"", " "}, h \in {"example.com", "localhost:8000"},
       p \in {"", "/path"}, q \in {"", "?", "?x=1"}, f \in {"", "#f"} :
        (arg_url = pad \o h \o p \o q \o f \o pad /\ pc # "call") =>
            /\ pc # "raised"
            /\ site.base_url = "https://" \o h \o (IF p = "" THEN "/" ELSE p)
                                   \o (IF q = "?" THEN "" ELSE q)

\* host and port, path, query and fragment, padded: normalized, and the
\* bare host of the claim's first example
C17_Witness ==
    \/ /\ arg_url = " localhost:8000/path?x=1#f "
       /\ pc = "renormalized"
       /\ site.base_url = "https://localhost:8000/path?x=1"
    \/ /\ arg_url = "example.com"
       /\ pc = "renormalized"
       /\ site.base_url = "https://example.com/"

(***************************************************************************)
(* Properties of extract_keywords and aggregate_keywords.                  *)
(***************************************************************************)
\* C18: extract_keywords returns [] for a body text without a surviving
\* token (no words, or only stopwords and words of at most three letters);
\* the keywords of a page are at most max_keywords, each score is between 0
\* and 100, and they are in descending order of (score, frequency); a page
\* whose title has a surviving token has keywords.
C18_KeywordsBoundedAndSorted ==
    /\ extract_keywords(<<Text(12, 130, <<>>)>>, None, Headings(<<>>), None,
                        max_keywords) = <<>>
    /\ extract_keywords(<<Title("The"), Text(5, 100, <<"with", "is", "a", "this">>)>>,
                        Some("The"), Headings(<<>>), Some("Crawling"),
                        max_keywords) = <<>>
    /\ \A i \in 1..Len(site.pages) :
           /\ Len(site.pages[i].keywords) <= max_keywords
           /\ tokenize_for_keywords(site.pages[i].title) # <<>>
                  => site.pages[i].keywords # <<>>
           /\ \A a \in 1..Len(site.pages[i].keywords) :
                  /\ site.pages[i].keywords[a].score \in 0..1000
                  /\ \A b \in (a + 1)..Len(site.pages[i].keywords) :
                         \/ site.pages[i].keywords[a].score
                                > site.pages[i].keywords[b].score
                         \/ /\ site.pages[i].keywords[a].score
                                   = site.pages[i].keywords[b].score
                            /\ site.pages[i].keywords[a].frequency
                                   >= site.pages[i].keywords[b].frequency

\* a page without keywords next to a page whose more than max_keywords terms
\* were cut to max_keywords, the first with the clamped score 100 and the
\* last with a lower score and frequency
C18_Witness ==
    /\ Len(site.pages) = 2
    /\ site.pages[1].keywords = <<>>
    /\ Len(site.pages[2].keywords) = max_keywords
    /\ site.pages[2].text_stats.word_count = 800
    /\ site.pages[2].keywords[1].score = 1000
    /\ site.pages[2].keywords[1].term = "crawling"
    /\ site.pages[2].keywords[max_keywords].score < 1000
    /\ site.pages[2].keywords[max_keywords].frequency
           < site.pages[2].keywords[1].frequency

\* C19: aggregate_keywords returns at most max_terms summaries, and the pages
\* count of each is at least 1 and at most the number of pages of the site.
C19_SummariesBounded ==
    pc = "done" =>
        /\ Len(site.keywords) <= max_terms
        /\ \A n \in 1..Len(site.keywords) :
               /\ site.keywords[n].pages >= 1
               /\ site.keywords[n].pages <= Len(site.pages)

\* two pages with more than max_terms terms between them and a term on both
C19_Witness ==
    /\ pc = "done"
    /\ Len(site.pages) = 2
    /\ Len(site.keywords) = max_terms
    /\ Cardinality(UNION {{site.pages[i].keywords[a].term :
                              a \in 1..Len(site.pages[i].keywords)} : i \in 1..2})
           > max_terms
    /\ \E n \in 1..Len(site.keywords) : site.keywords[n].pages = 2

(***************************************************************************)
(* Determinism of audit_url.  The fetch log holds, in order, the URL and   *)
(* the response of every fetch.  Replay runs the crawl loop as a function  *)
(* of the responses to the page fetches alone; a run whose state is the    *)
(* value of that function is the same as any other run with the same       *)
(* arguments and the same responses.                                       *)
(***************************************************************************)
\* the response a log entry records
ResponseOf(f) == CHOOSE r \in Web(f.url) : Fetched(f.stage, f.url, r) = f

RECURSIVE Replay(_, _, _, _, _, _, _)
\* the crawl loop from queue q, visited set seen and recorded pages on, fed
\* with the logged page responses in order: what is left of the log (empty
\* when every logged fetch was of the URL the loop fetches next), the queue,
\* the visited set, the pages, and whether extraction raised
Replay(q, seen, pages, log, disallow, base, mp) ==
    IF ~LoopCond(q, pages, mp) \/ (Head(q) \notin seen /\ log = <<>>)
    THEN [log |-> log, queue |-> q, visited |-> seen, pages |-> pages,
          raised |-> FALSE]
    ELSE IF Head(q) \in seen
    THEN Replay(Tail(q), seen, pages, log, disallow, base, mp)
    ELSE IF Head(log).url # Head(q)
    THEN [log |-> log, queue |-> q, visited |-> seen, pages |-> pages,
          raised |-> FALSE]
    ELSE LET f == PageFetch(ResponseOf(Head(log)))
             recorded == Append(pages, PageAudit(Head(q), f.status, f.html, disallow))
         IN  IF ~extract_json_ld_types(f.html).ok
             THEN [log |-> Tail(log), queue |-> Tail(q),
                   visited |-> MarkVisited(seen, Head(q)), pages |-> pages,
                   raised |-> TRUE]
             ELSE Replay(IF FollowLinks(f.text, recorded, mp)
                         THEN EnqueueLoop(extract_links(Head(q), f.html,
                                                        MAX_LINKS_PER_PAGE),
                                          Tail(q), MarkVisited(seen, Head(q)), base,
                                          Head(q))
                         ELSE Tail(q),
                         MarkVisited(seen, Head(q)), recorded, Tail(log), disallow,
                         base, mp)

PageUrls(log) == {log[i].url : i \in {j \in 1..Len(log) : log[j].stage = "page"}}

C22_EnqueuedLinksFiltered ==
    [][\A i \in (Len(enqueued) + 1)..Len(enqueued') :
           enqueued'[i].from # "" =>
               /\ urlparse(enqueued'[i].url, "").scheme = urlparse(url, "").scheme
               /\ urlparse(enqueued'[i].url, "").netloc = urlparse(url, "").netloc
               /\ urlparse(enqueued'[i].url, "").scheme \in {"http", "https"}
               /\ \A ext \in NON_HTML_EXTENSIONS :
                      ~EndsWith(urlparse(enqueued'[i].url, "").path, ext)
               /\ enqueued'[i].url \notin visited'
               /\ enqueued'[i].from = Head(queue)
               /\ enqueued'[i].url # Head(queue)
               /\ \A j \in 1..Len(queue') :
                      queue'[j] = enqueued'[i].url
                          <=> j = Len(queue) - 1 + i - Len(enqueued)]_vars

\* the page whose links are of another scheme, of another host, of an image,
\* of the page itself and of two pages of the site was processed: the two
\* pages are queued
C22_Witness ==
    /\ pc = "crawl"
    /\ Len(fetches) > 0
    /\ fetches[Len(fetches)].body = "<html>filters"
    /\ queue = <<"http://b/p", "http://b/q">>
    /\ visited = {"http://b/p?x=1"}

\* C23 (as claimed), termination: every iteration of the crawl loop that
\* does not leave audit_url records a page, or takes a URL off the queue
\* and records none; the pages are at most max(1, max_pages) and the queue
\* is finite, so the loop is left after finitely many iterations.
C23_CrawlLoopProgresses ==
    [][pc = "crawl" =>
           \/ pc' \in {"done", "raised"}
           \/ /\ Len(site'.pages) = Len(site.pages) + 1
              /\ Len(site'.pages) <= max_pages
           \/ /\ Len(site'.pages) = Len(site.pages)
              /\ Len(queue') < Len(queue)]_vars

\* C23 (as claimed), exit condition: when the crawl loop has been left,
\* the queue is empty or the number of recorded pages is max(1, max_pages).
C23_LoopLeftAtEmptyQueueOrLimit ==
    (pc = "done" \/ (pc = "raised" /\ exc = "AttributeError")) =>
        (queue = <<>> \/ Len(site.pages) = max_pages)

\* C23 (as claimed), enqueueing: a crawl step appends to the queue only when
\* the pages recorded, the page of the step included, are fewer than
\* max(1, max_pages).
C23_EnqueueOnlyBelowLimit ==
    [][(pc = "crawl" /\ Len(enqueued') > Len(enqueued)) =>
           Len(site'.pages) < max_pages]_vars

\* how many times the message m stands in site.recommendations
Times(m) == Cardinality({n \in 1..Len(site.recommendations) : site.recommendations[n] = m})

\* C24: when audit_url has returned, site.recommendations holds the sitemap
\* message once when site.sitemaps is empty and not at all otherwise, and
\* the llm.txt message once when llm_txt_found is false and not at all
\* otherwise; each message is there exactly when the sitemap, respectively
\* the policy, contribution of every page is 0.
C24_SiteAdvisories ==
    Scored =>
        /\ Times(REC_SITEMAP) = (IF site.sitemaps = <<>> THEN 1 ELSE 0)
        /\ Times(REC_LLM) = (IF site.llm_txt_found THEN 0 ELSE 1)
        /\ Times(REC_SITEMAP) > 0
               <=> \A i \in 1..Len(site.pages) :
                       /\ site.pages[i].breakdown["sitemap"] = 0
                       /\ _score_components(site.pages[i], site)["sitemap"] = 0
        /\ Times(REC_LLM) > 0
               <=> \A i \in 1..Len(site.pages) :
                       /\ site.pages[i].breakdown["policy"] = 0
                       /\ _score_components(site.pages[i], site)["policy"] = 0

\* two pages were audited of a site whose robots.txt names sitemaps and
\* which has no llm.txt: of the two messages only the llm.txt one is there,
\* after the messages of the pages
C24_Witness ==
    /\ Scored
    /\ Len(site.pages) = 2
    /\ site.sitemaps # <<>>
    /\ ~site.llm_txt_found
    /\ site.recommendations[Len(site.recommendations)] = REC_LLM
    /\ Times(REC_SITEMAP) = 0
    /\ site.pages[1].breakdown["sitemap"] = 50

\* C25 (as claimed): until scoring has run, every recorded page has score
\* 0, an empty breakdown, no recommendations and no keywords.
C25_PageFieldsDefaultBeforeScoring ==
    pc # "done" =>
        \A i \in 1..Len(site.pages) :
            /\ site.pages[i].score = 0
            /\ site.pages[i].breakdown = <<>>
            /\ site.pages[i].recommendations = <<>>
            /\ site.pages[i].keywords = <<>>

\* C25 (amended): until scoring has run, every recorded page has score 0,
\* an empty breakdown and no recommendations, and once it has run the
\* breakdown has the seven categories; the keywords of a page are those it
\* was recorded with, and scoring leaves them as they are.
C25_ScoreFieldsDefaultBeforeScoring ==
    /\ [](pc # "done" =>
              \A i \in 1..Len(site.pages) :
                  /\ site.pages[i].score = 0
                  /\ site.pages[i].breakdown = <<>>
                  /\ site.pages[i].recommendations = <<>>)
    /\ [](pc = "done" =>
              \A i \in 1..Len(site.pages) :
                  DOMAIN site.pages[i].breakdown = DOMAIN WEIGHTS)
    /\ [][\A i \in 1..Len(site.pages) :
              /\ i <= Len(site'.pages)
              /\ site'.pages[i].keywords = site.pages[i].keywords]_vars

\* a page is recorded with keywords and scoring has not run
C25_Witness ==
    /\ pc = "crawl"
    /\ Len(site.pages) = 2
    /\ Len(site.pages[2].keywords) = max_keywords
    /\ site.pages[2].score = 0
    /\ site.pages[2].breakdown = <<>>

\* the Disallow values audit_url took from robots.txt: those parse_robots
\* finds in the body of a 2xx answer, none otherwise
Disallowed ==
    IF fetches # <<>> /\ Hit(fetches[1]) THEN parse_robots(fetches[1].body).disallow
    ELSE <<>>

\* C26 (as claimed): a page is blocked_by_robots iff the path of its URL
\* starts with one of the Disallow values parsed from robots.txt.
C26_BlockedIffPathStartsWithDisallow ==
    \A i \in 1..Len(site.pages) :
        site.pages[i].blocked_by_robots
            <=> \E n \in 1..Len(Disallowed) :
                    StartsWith(urlparse(site.pages[i].url, "").path, Disallowed[n])

\* C26 (amended): a page is blocked_by_robots iff the path of its URL starts
\* with one of the non-empty Disallow values parsed from robots.txt; the
\* Allow values do not enter.
C26_BlockedIffPathStartsWithNonEmptyDisallow ==
    \A i \in 1..Len(site.pages) :
        site.pages[i].blocked_by_robots
            <=> \E n \in 1..Len(Disallowed) :
                    /\ Disallowed[n] # ""
                    /\ StartsWith(urlparse(site.pages[i].url, "").path, Disallowed[n])

\* robots.txt has the values /p and "" for Disallow and /p/x for Allow: the
\* seed page is not blocked, the page /p is, and so is the page /p/x that
\* an Allow line names
C26_Witness ==
    /\ Disallowed = <<"/p", "">>
    /\ parse_robots(fetches[1].body).allow = <<"/p/x">>
    /\ Len(site.pages) = 4
    /\ ~site.pages[1].blocked_by_robots
    /\ site.pages[2].url = "https://a/p"
    /\ site.pages[2].blocked_by_robots
    /\ site.pages[4].url = "https://a/p/x"
    /\ site.pages[4].blocked_by_robots

\* C27: when the crawl loop is over there is at least one page, so
\* score_site and derive_recommendations do not take their branch for no
\* pages; when audit_url has returned, the first page has the url base_url,
\* the normalized seed, and site.page is that first page.
C27_SeedPageAlwaysRecorded ==
    /\ (pc = "crawl" /\ ~LoopCond(queue, site.pages, max_pages)) => site.pages # <<>>
    /\ pc = "done" =>
           /\ site.pages # <<>>
           /\ site.base_url = normalize_url(arg_url).url
           /\ site.pages[1].url = site.base_url
           /\ site.page = Some(site.pages[1])
           /\ site.recommendations # <<REC_FAILED>>
           /\ DOMAIN site.pages[1].breakdown = DOMAIN WEIGHTS

\* audit_url has returned from a call with max_pages = 0 whose seed fetch
\* raised: the failed seed is the one page and site.page
C27_Witness ==
    /\ pc = "done"
    /\ arg_max_pages = 0
    /\ Len(site.pages) = 1
    /\ site.pages[1].status_code = 0
    /\ site.page = Some(site.pages[1])
    /\ site.pages[1].url = "https://a/"

\* C28: every recorded page has a url with the scheme and the netloc of
\* base_url, compared as they are written.
C28_PagesOfSeedOrigin ==
    \A i \in 1..Len(site.pages) :
        /\ urlparse(site.pages[i].url, "").scheme = urlparse(site.base_url, "").scheme
        /\ urlparse(site.pages[i].url, "").netloc = urlparse(site.base_url, "").netloc

\* the seed page of the site http://b links to https://b/q, to http://a/
\* and to two pages of its own site: the crawl recorded these two
C28_Witness ==
    /\ pc = "done"
    /\ site.base_url = "http://b/p?x=1"
    /\ \E n \in 1..Len(fetches) : fetches[n].body = "<html>filters"
    /\ [i \in 1..Len(site.pages) |-> site.pages[i].url]
           = <<"http://b/p?x=1", "http://b/p", "http://b/q">>

\* C29, the queue: during the crawl no URL is twice in the queue and no URL
\* of the queue is in the visited set, so no iteration of the loop takes the
\* branch that skips a visited URL.
C29_QueueDistinctAndUnvisited ==
    /\ [](Crawling =>
              /\ \A i, j \in 1..Len(queue) : queue[i] = queue[j] => i = j
              /\ \A i \in 1..Len(queue) : queue[i] \notin visited)
    /\ [][pc = "crawl" /\ pc' = "crawl" => Len(site'.pages) = Len(site.pages) + 1]_vars

\* C29 (as claimed): during the crawl no URL is twice in the queue, no URL
\* of the queue is in the visited set, and every URL that was dequeued, that
\* is every visited URL, has exactly one page record.
C29_EveryDequeuedUrlRecordedOnce ==
    Crawling =>
        /\ \A i, j \in 1..Len(queue) : queue[i] = queue[j] => i = j
        /\ \A i \in 1..Len(queue) : queue[i] \notin visited
        /\ \A u \in visited :
               Cardinality({i \in 1..Len(site.pages) : site.pages[i].url = u}) = 1

\* the place of a stage in the order of the fetches
StageRank(stage) == CASE stage = "robots" -> 1 [] stage = "llm" -> 2 [] OTHER -> 3

\* C30: one call fetches robots.txt once and first, then at most two
\* llm.txt candidates, then at most max(1, max_pages) pages: at most
\* max(1, max_pages) + 3 fetches, in this order.
C30_FetchBudgetAndOrder ==
    /\ Len(fetches) <= (IF arg_max_pages < 1 THEN 1 ELSE arg_max_pages) + 3
    /\ Len(FetchesOf("robots")) <= 1
    /\ Len(FetchesOf("llm")) <= 2
    /\ Len(FetchesOf("page")) <= (IF arg_max_pages < 1 THEN 1 ELSE arg_max_pages)
    /\ \A i, j \in 1..Len(fetches) :
           i < j => StageRank(fetches[i].stage) <= StageRank(fetches[j].stage)
    /\ pc \in {"llm", "crawl", "done"} => Len(FetchesOf("robots")) = 1
    /\ pc \in {"crawl", "done"} => Len(FetchesOf("llm")) >= 1

\* a call with max_pages = 4 has returned after seven fetches: robots.txt,
\* both llm.txt candidates and four pages
C30_Witness ==
    /\ pc = "done"
    /\ arg_max_pages = 4
    /\ Len(fetches) = 7
    /\ [i \in 1..7 |-> fetches[i].stage]
           = <<"robots", "llm", "llm", "page", "page", "page", "page">>
====
